---- MODULE Spec2Model ----
(***************************************************************************)
(* Model of the WhatsApp MCP bridge: recipient resolution (src/src/mcp.ts),*)
(* the tool handlers registered by startMcpServer (src/src/mcp.ts) and the *)
(* transport wrappers (whatsapp.ts, src/unnamed/part_000).                 *)
(*                                                                         *)
(* Strings are sequences of one-character strings, so that substring,     *)
(* suffix, regular-expression and normalisation steps are computed and     *)
(* not assumed.                                                            *)
(***************************************************************************)
EXTENDS Integers, Sequences, FiniteSets, TLC

VARIABLES
    chats,              \* Store: the chats table, a set of rows
    messages,           \* Store: the messages table, a set of rows
    contactsFile,       \* contacts.json on disk: [ok, list]
    groupsFile,         \* groups.json on disk: [ok, list]
    contactsJsonCache,  \* mcp.ts contactsJsonCache: [loaded, list]
    groupsJsonCache,    \* mcp.ts groupsJsonCache: [loaded, list]
    sock,               \* the sock argument of startMcpServer: [present, user]
    input,              \* the argument handed to resolveRecipient or to a Store or transport operation
    res,                \* outcome of the last call of resolveRecipient or of that operation
    resp                \* outcome of the last tool invocation

vars == <<chats, messages, contactsFile, groupsFile, contactsJsonCache,
          groupsJsonCache, sock, input, res, resp>>

-----------------------------------------------------------------------------
(* Bounds of the model *)

MaxContacts == 2
MaxGroups == 2
MaxPrefixLen == 7
MaxLimit == 2
MaxPage == 2
MaxClock == 2
MaxMessages == 4
MaxAround == 1
MaxSockets == 3
MaxReads == 3

-----------------------------------------------------------------------------
(* Strings *)

Digits == {"0", "1", "2", "3", "4", "5", "6", "7", "8", "9"}

\* \d of the regular expressions
IsDigit(c) == c \in Digits

\* \s of the regular expressions (the whitespace the model's strings use)
IsSpace(c) == c \in {" ", "\t", "\n"}

\* String.prototype.toLowerCase (and SQL LOWER()) on one ASCII character
LowerChar(c) ==
    CASE c = "A" -> "a"
      [] c = "B" -> "b"
      [] c = "C" -> "c"
      [] c = "D" -> "d"
      [] c = "E" -> "e"
      [] c = "F" -> "f"
      [] c = "G" -> "g"
      [] c = "H" -> "h"
      [] c = "I" -> "i"
      [] c = "J" -> "j"
      [] c = "K" -> "k"
      [] c = "L" -> "l"
      [] c = "M" -> "m"
      [] c = "N" -> "n"
      [] c = "O" -> "o"
      [] c = "P" -> "p"
      [] c = "Q" -> "q"
      [] c = "R" -> "r"
      [] c = "S" -> "s"
      [] c = "T" -> "t"
      [] c = "U" -> "u"
      [] c = "V" -> "v"
      [] c = "W" -> "w"
      [] c = "X" -> "x"
      [] c = "Y" -> "y"
      [] c = "Z" -> "z"
      [] OTHER -> c

ToLower(s) == [i \in 1..Len(s) |-> LowerChar(s[i])]

\* String.prototype.includes
Includes(s, sub) ==
    \E i \in 0..(Len(s) - Len(sub)) : SubSeq(s, i + 1, i + Len(sub)) = sub

\* String.prototype.endsWith
EndsWith(s, suf) ==
    /\ Len(suf) <= Len(s)
    /\ SubSeq(s, Len(s) - Len(suf) + 1, Len(s)) = suf

\* String.prototype.indexOf for one character, 1-based; 0 when absent
IndexOf(s, c) ==
    IF \E i \in 1..Len(s) : s[i] = c
    THEN CHOOSE i \in 1..Len(s) : s[i] = c /\ \A j \in 1..(i - 1) : s[j] # c
    ELSE 0

\* s.split(c)[0]
BeforeFirst(s, c) == IF IndexOf(s, c) = 0 THEN s ELSE SubSeq(s, 1, IndexOf(s, c) - 1)

\* s.replace(/\D/g, "")
StripNonDigits(s) == SelectSeq(s, IsDigit)

\* String.prototype.trim
RECURSIVE TrimLeft(_)
TrimLeft(s) == IF s # <<>> /\ IsSpace(s[1]) THEN TrimLeft(Tail(s)) ELSE s

RECURSIVE TrimRight(_)
TrimRight(s) ==
    IF s # <<>> /\ IsSpace(s[Len(s)]) THEN TrimRight(SubSeq(s, 1, Len(s) - 1)) ELSE s

Trim(s) == TrimRight(TrimLeft(s))

\* Array.prototype.join("\n") on a sequence of strings
RECURSIVE JoinLines(_)
JoinLines(ls) ==
    IF ls = <<>> THEN <<>>
    ELSE IF Len(ls) = 1 THEN ls[1]
    ELSE ls[1] \o <<"\n">> \o JoinLines(Tail(ls))

S_WHATSAPP_NET == <<"@", "s", ".", "w", "h", "a", "t", "s", "a", "p", "p", ".", "n", "e", "t">>
G_US == <<"@", "g", ".", "u", "s">>
C_US == <<"@", "c", ".", "u", "s">>
Unknown == <<"U", "n", "k", "n", "o", "w", "n">>

\* SQL NULL / undefined for an optional string; the Store never holds an
\* empty name (upsertChat ignores one), so the empty string stands for NULL.
NoName == <<>>

-----------------------------------------------------------------------------
(* The messaging library's address helpers *)

\* isJidGroup(jid): jid?.endsWith("@g.us")
isJidGroup(jid) == EndsWith(jid, G_US)

\* jidNormalizedUser(jid): jidDecode splits at the first "@", drops the
\* ":device" and "_agent" parts of the user, and jidEncode rebuilds
\* user@server with c.us rewritten to s.whatsapp.net; "" when there is no "@".
jidNormalizedUser(jid) ==
    LET sep == IndexOf(jid, "@") IN
    IF sep = 0 THEN <<>>
    ELSE LET server == SubSeq(jid, sep + 1, Len(jid))
             userAgent == BeforeFirst(SubSeq(jid, 1, sep - 1), ":")
             user == BeforeFirst(userAgent, "_")
         IN user \o <<"@">> \o (IF <<"@">> \o server = C_US THEN Tail(S_WHATSAPP_NET) ELSE server)

-----------------------------------------------------------------------------
(* Ordering of strings, for the Store's ORDER BY *)

\* The characters of the model's strings in code-point order
CharOrder ==
    <<"\t", "\n", " ", "+", "-", ".", "0", "1", "2", "3", "4", "5", "6", "7",
      "8", "9", ":", "@",
      "A", "B", "C", "D", "E", "F", "G", "H", "I", "J", "K", "L", "M",
      "N", "O", "P", "Q", "R", "S", "T", "U", "V", "W", "X", "Y", "Z", "_",
      "a", "b", "c", "d", "e", "f", "g", "h", "i", "j", "k", "l", "m",
      "n", "o", "p", "q", "r", "s", "t", "u", "v", "w", "x", "y", "z">>

RankOf ==
    [c \in {CharOrder[i] : i \in 1..Len(CharOrder)} |->
        CHOOSE i \in 1..Len(CharOrder) : CharOrder[i] = c]

Rank(c) == RankOf[c]

\* a < b in the lexicographic order of the characters
LexLess(a, b) ==
    \/ /\ Len(a) < Len(b)
       /\ SubSeq(b, 1, Len(a)) = a
    \/ \E i \in 1..(IF Len(a) < Len(b) THEN Len(a) ELSE Len(b)) :
          /\ SubSeq(a, 1, i - 1) = SubSeq(b, 1, i - 1)
          /\ Rank(a[i]) < Rank(b[i])

-----------------------------------------------------------------------------
(* Store: the chats and messages tables and their queries (database.ts)    *)

\* last_message_time IS NULL
NoTime == 0

\* A chat row matches a search term: LOWER(name) LIKE %term% OR jid LIKE %term%
ChatMatches(c, query) ==
    \/ c.name # NoName /\ Includes(ToLower(c.name), ToLower(query))
    \/ Includes(ToLower(c.jid), ToLower(query))

\* ORDER BY last_message_time DESC NULLS LAST, jid ASC
ChatBefore(a, b) ==
    \/ a.last_message_time > b.last_message_time
    \/ /\ a.last_message_time = b.last_message_time
       /\ LexLess(a.jid, b.jid)

RECURSIVE OrderChats(_)
OrderChats(S) ==
    IF S = {} THEN <<>>
    ELSE LET first == CHOOSE c \in S : \A d \in S \ {c} : ChatBefore(c, d)
         IN <<first>> \o OrderChats(S \ {first})

\* LIMIT n
Limit(seq, n) == SubSeq(seq, 1, IF Len(seq) < n THEN Len(seq) ELSE n)

\* searchContacts(query, limit): the chats whose name or address contains
\* the term, case-insensitively, most recent first
searchDbForContacts(db, query, limit) ==
    Limit(OrderChats({c \in db : ChatMatches(c, query)}), limit)

\* ORDER BY timestamp DESC, id as the tie-break
MessageBefore(a, b) ==
    \/ a.timestamp > b.timestamp
    \/ /\ a.timestamp = b.timestamp
       /\ \/ LexLess(a.id, b.id)
          \/ a.id = b.id /\ LexLess(a.chat_jid, b.chat_jid)

RECURSIVE OrderMessages(_)
OrderMessages(S) ==
    IF S = {} THEN <<>>
    ELSE LET first == CHOOSE m \in S : \A n \in S \ {m} : MessageBefore(m, n)
         IN <<first>> \o OrderMessages(S \ {first})

\* LIMIT limit OFFSET page
Page_OffsetIsPage(seq, limit, page) ==
    SubSeq(seq, page + 1, IF Len(seq) < page + limit THEN Len(seq) ELSE page + limit)

\* LIMIT limit OFFSET page * limit
Page(seq, limit, page) ==
    SubSeq(seq, page * limit + 1,
           IF Len(seq) < (page + 1) * limit THEN Len(seq) ELSE (page + 1) * limit)

\* listMessages(chatAddress, limit, page): newest first, paged
getMessages(msgs, chat_jid, limit, page) ==
    Page(OrderMessages({m \in msgs : m.chat_jid = chat_jid}), limit, page)

\* getMessagesAround(messageId, 0, 0): the rows a lookup by id alone may
\* return as its target (the id is unique only within a chat)
TargetsOf(msgs, id) == {m \in msgs : m.id = id}

\* No lastMessageTime given to upsertChat
NoTimeGiven == NoTime

\* A chat row created by upsertChat: no last message yet
NewChat(jid, name, time) ==
    [jid |-> jid, name |-> name, last_message_time |-> time,
     last_message |-> <<>>, last_sender |-> <<>>, last_is_from_me |-> FALSE]

\* upsertChat writing the name it is given, a missing one included
upsertChat_NameAsGiven(db, jid, name, time) ==
    IF \E c \in db : c.jid = jid
    THEN {IF c.jid = jid
          THEN [c EXCEPT !.name = name,
                         !.last_message_time = IF time # NoTimeGiven THEN time ELSE @]
          ELSE c : c \in db}
    ELSE db \cup {NewChat(jid, name, time)}

\* upsertChat(address, name, lastMessageTime): creates the row if absent;
\* sets the name only when a non-empty one is supplied, and the last message
\* time, as it is given, only when one is supplied
upsertChat(db, jid, name, time) ==
    IF \E c \in db : c.jid = jid
    THEN {IF c.jid = jid
          THEN [c EXCEPT !.name = IF name # NoName THEN name ELSE @,
                         !.last_message_time = IF time # NoTimeGiven THEN time ELSE @]
          ELSE c : c \in db}
    ELSE db \cup {NewChat(jid, name, time)}

\* upsertChat(address, name)
storeChat(db, jid, name) == upsertChat(db, jid, name, NoTimeGiven)

\* The last-message fields of a chat row that describe the message
LastMessageOf(c, m) ==
    [c EXCEPT !.last_message_time = m.timestamp, !.last_message = m.content,
              !.last_sender = m.sender, !.last_is_from_me = m.is_from_me]

\* insertMessage refreshing the owning chat without creating it
storeMessageChats_NoCreate(db, m) ==
    {IF c.jid = m.chat_jid /\ m.timestamp >= c.last_message_time
     THEN LastMessageOf(c, m) ELSE c : c \in db}

\* insertMessage(message), the chats table: the owning chat is created if
\* missing, and its last-message fields are refreshed when the message's
\* timestamp is the newest seen so far for the chat
storeMessageChats(db, m) ==
    {IF c.jid = m.chat_jid /\ m.timestamp >= c.last_message_time
     THEN LastMessageOf(c, m) ELSE c :
     c \in upsertChat(db, m.chat_jid, NoName, NoTimeGiven)}

\* insertMessage(message), the messages table: one row for (id, chat_jid),
\* the last write
storeMessageRows(msgs, m) ==
    {r \in msgs : ~(r.id = m.id /\ r.chat_jid = m.chat_jid)} \cup {m}

\* The name a chat is sorted by: its name, or its address when it has none
ChatSortName(c) == ToLower(IF c.name = NoName THEN c.jid ELSE c.name)

\* ORDER BY name, case-insensitively, the address as the tie-break
ChatNameBefore(a, b) ==
    \/ LexLess(ChatSortName(a), ChatSortName(b))
    \/ ChatSortName(a) = ChatSortName(b) /\ LexLess(a.jid, b.jid)

RECURSIVE OrderChatsByName(_)
OrderChatsByName(S) ==
    IF S = {} THEN <<>>
    ELSE LET first == CHOOSE c \in S : \A d \in S \ {c} : ChatNameBefore(c, d)
         IN <<first>> \o OrderChatsByName(S \ {first})

\* No filter given to listChats
NoQuery == <<>>

\* listChats(limit, page, sortBy, filter, includeLastMessage)
getChats(db, limit, page, sort_by, query) ==
    LET found == IF query = NoQuery THEN db ELSE {c \in db : ChatMatches(c, query)}
    IN Page(IF sort_by = "name" THEN OrderChatsByName(found) ELSE OrderChats(found),
            limit, page)

\* getChat(address, includeLastMessage): the chat, or nothing
getChat(db, jid) == {c \in db : c.jid = jid}

\* No chat given to searchMessages
NoChat == <<>>

\* searchMessages(query, chatAddress, limit, page): the messages whose content
\* contains the term, case-insensitively, of one chat or of all, paged like
\* listMessages
searchMessages(msgs, query, chat_jid, limit, page) ==
    Page(OrderMessages({m \in msgs :
            /\ Includes(ToLower(m.content), ToLower(query))
            /\ chat_jid # NoChat => m.chat_jid = chat_jid}),
         limit, page)

\* The messages of a chat, oldest first
Chronological(msgs, chat_jid) ==
    LET newestFirst == OrderMessages({m \in msgs : m.chat_jid = chat_jid})
    IN [i \in 1..Len(newestFirst) |-> newestFirst[Len(newestFirst) + 1 - i]]

\* getMessagesAround taking the neighbours from every chat
getMessagesAround_AnyChat(msgs, target, before, after) ==
    LET newestFirst == OrderMessages(msgs)
        seq == [i \in 1..Len(newestFirst) |-> newestFirst[Len(newestFirst) + 1 - i]]
        at == CHOOSE i \in 1..Len(seq) : seq[i] = target
    IN [target |-> target,
        before |-> SubSeq(seq, IF at - before < 1 THEN 1 ELSE at - before, at - 1),
        after |-> SubSeq(seq, at + 1, IF at + after > Len(seq) THEN Len(seq) ELSE at + after)]

\* getMessagesAround(messageId, before, after) for the row the lookup by id
\* gave as its target: up to `before` messages preceding it and up to
\* `after` following it in the target's chat, oldest first
getMessagesAround(msgs, target, before, after) ==
    LET seq == Chronological(msgs, target.chat_jid)
        at == CHOOSE i \in 1..Len(seq) : seq[i] = target
    IN [target |-> target,
        before |-> SubSeq(seq, IF at - before < 1 THEN 1 ELSE at - before, at - 1),
        after |-> SubSeq(seq, at + 1, IF at + after > Len(seq) THEN Len(seq) ELSE at + after)]

-----------------------------------------------------------------------------
(* Contact Index: the two fallback lists (mcp.ts)                          *)

\* getContactsJson(): the cached list, or the list read from contacts.json
\* on first use ([] when the file is missing or does not parse)
getContactsJson(cache, file) ==
    IF cache.loaded THEN cache.list
    ELSE IF file.ok THEN file.list ELSE <<>>

\* getGroupsJson(): the same for groups.json
getGroupsJson(cache, file) ==
    IF cache.loaded THEN cache.list
    ELSE IF file.ok THEN file.list ELSE <<>>

\* The name an entry of contacts.json is matched by:
\* c["Display Name"] || `${c["First Name"] || ""} ${c["Last Name"] || ""}`.trim()
EntryName(c) ==
    IF c.display # <<>> THEN c.display ELSE Trim(c.first \o <<" ">> \o c.last)

EntryNameMatches(c, query) == Includes(ToLower(EntryName(c)), ToLower(query))

\* contacts.find(...): the index of the first entry whose name matches; 0 if none
FindContact(contacts, query) ==
    IF \E i \in 1..Len(contacts) : EntryNameMatches(contacts[i], query)
    THEN CHOOSE i \in 1..Len(contacts) :
            /\ EntryNameMatches(contacts[i], query)
            /\ \A j \in 1..(i - 1) : ~EntryNameMatches(contacts[j], query)
    ELSE 0

\* searchContactsJson(query): a phone-based JID, or null (the empty string here)
searchContactsJson(query, contacts) ==
    LET m == FindContact(contacts, query) IN
    IF m = 0 THEN <<>>
    ELSE IF contacts[m].phone = <<>> THEN <<>>
    ELSE LET digits == StripNonDigits(contacts[m].phone) IN
         IF digits = <<>> THEN <<>> ELSE digits \o S_WHATSAPP_NET

\* searchGroupsJson(query): every group whose name contains the query
searchGroupsJson(query, groups) ==
    SelectSeq(groups, LAMBDA g : Includes(ToLower(g.name), ToLower(query)))

-----------------------------------------------------------------------------
(* Recipient Resolver (mcp.ts resolveRecipient)                            *)

\* /^\+?\d[\d\s\-]{6,}$/.test(recipient)
PhoneRegex(recipient) ==
    LET t == IF recipient # <<>> /\ recipient[1] = "+" THEN Tail(recipient) ELSE recipient
    IN /\ Len(t) >= 7
       /\ IsDigit(t[1])
       /\ \A i \in 2..Len(t) : IsDigit(t[i]) \/ IsSpace(t[i]) \/ t[i] = "-"

\* One line of a candidate list: bullet, name, arrow, jid. The bullet (U+2022)
\* and the arrow (U+2192) are written "*" and ">" here.
Bullet(name, jid) == <<"*", " ">> \o name \o <<" ", ">", " ">> \o jid

NoError == [list |-> <<>>, recipient |-> <<>>, t |-> ""]

\* return { jid }
ResolvedJid(jid, via, consulted) ==
    [ok |-> TRUE, jid |-> jid, via |-> via, consulted |-> consulted, error |-> NoError]

\* return { error }
ResolveError(t, recipient, list, via, consulted) ==
    [ok |-> FALSE, jid |-> <<>>, via |-> via, consulted |-> consulted,
     error |-> [list |-> list, recipient |-> recipient, t |-> t]]

MultipleContactsText ==
    "Multiple contacts match \"${recipient}\". Please be more specific or use a JID directly:\n${list}"

MultipleGroupsText ==
    "Multiple groups match \"${recipient}\". Please be more specific:\n${list}"

NotFoundText ==
    "No contact or group found with name \"${recipient}\". Try using a phone number or full JID instead."

\* The text of the catch around the "@" branch
InvalidJidText == "Invalid JID format: \"${recipient}\""

\* searchDbForContacts(recipient, 10)
ResolverSearchLimit == 10

\* Mutant: every address goes through jidNormalizedUser, group or not.
ResolveAddress_NormalizeAll(recipient) ==
    ResolvedJid(jidNormalizedUser(recipient), "address", <<>>)

\* The "@" branch: a group JID as it is, any other through jidNormalizedUser
ResolveAddress(recipient) ==
    IF isJidGroup(recipient)
    THEN ResolvedJid(recipient, "address", <<>>)
    ELSE ResolvedJid(jidNormalizedUser(recipient), "address", <<>>)

\* The phone branch: the digits of the recipient and the individual suffix
ResolvePhone(recipient) ==
    ResolvedJid(StripNonDigits(recipient) \o S_WHATSAPP_NET, "phone", <<>>)

\* Mutant: with several Store matches the first one is taken.
ResolveFromStore_FirstMatch(recipient, matches) ==
    ResolvedJid(matches[1].jid, "db", <<"db">>)

\* The Store branch, for one or more matches
ResolveFromStore(recipient, matches) ==
    IF Len(matches) = 1
    THEN ResolvedJid(matches[1].jid, "db", <<"db">>)
    ELSE ResolveError(MultipleContactsText, recipient,
              JoinLines([i \in 1..Len(matches) |->
                  Bullet(IF matches[i].name = NoName THEN Unknown ELSE matches[i].name,
                         matches[i].jid)]),
              "db", <<"db">>)

\* Mutant: with several matching groups the first one is taken.
ResolveFromGroups_FirstGroup(recipient, groupMatches) ==
    LET consulted == <<"db", "contacts.json", "groups.json">> IN
    IF Len(groupMatches) >= 1
    THEN ResolvedJid(groupMatches[1].jid, "groups.json", consulted)
    ELSE ResolveError(NotFoundText, recipient, <<>>, "groups.json", consulted)

\* The groups.json branch
ResolveFromGroups(recipient, groupMatches) ==
    LET consulted == <<"db", "contacts.json", "groups.json">> IN
    IF Len(groupMatches) = 1
    THEN ResolvedJid(groupMatches[1].jid, "groups.json", consulted)
    ELSE IF Len(groupMatches) > 1
    THEN ResolveError(MultipleGroupsText, recipient,
              JoinLines([i \in 1..Len(groupMatches) |->
                  Bullet(groupMatches[i].name, groupMatches[i].jid)]),
              "groups.json", consulted)
    ELSE ResolveError(NotFoundText, recipient, <<>>, "groups.json", consulted)

\* The branch taken when the Store has no match: contacts.json, then groups.json
ResolveFromFallback(recipient, contacts, groups) ==
    LET jidFromJson == searchContactsJson(recipient, contacts) IN
    IF jidFromJson # <<>>
    THEN ResolvedJid(jidFromJson, "contacts.json", <<"db", "contacts.json">>)
    ELSE ResolveFromGroups(recipient, searchGroupsJson(recipient, groups))

\* Mutant: a name is looked up in contacts.json before the Store.
resolveRecipient_FallbackFirst(recipient, db, contacts, groups) ==
    IF Includes(recipient, <<"@">>) THEN ResolveAddress(recipient)
    ELSE IF PhoneRegex(recipient) THEN ResolvePhone(recipient)
    ELSE LET jidFromJson == searchContactsJson(recipient, contacts)
             matches == searchDbForContacts(db, recipient, ResolverSearchLimit)
         IN IF jidFromJson # <<>>
            THEN ResolvedJid(jidFromJson, "contacts.json", <<"contacts.json">>)
            ELSE IF Len(matches) = 0
            THEN ResolveFromFallback(recipient, contacts, groups)
            ELSE ResolveFromStore(recipient, matches)

\* resolveRecipient(recipient): { jid } or { error }, with the branch that
\* decided (via) and the lookups made on the way (consulted)
resolveRecipient(recipient, db, contacts, groups) ==
    IF Includes(recipient, <<"@">>) THEN ResolveAddress(recipient)
    ELSE IF PhoneRegex(recipient) THEN ResolvePhone(recipient)
    ELSE LET matches == searchDbForContacts(db, recipient, ResolverSearchLimit) IN
         IF Len(matches) = 0
         THEN ResolveFromFallback(recipient, contacts, groups)
         ELSE ResolveFromStore(recipient, matches)

\* One call of resolveRecipient in the current state: its result, and the
\* fallback caches as the lookups it made leave them
ResolveNow(recipient) ==
    resolveRecipient(recipient, chats,
                     getContactsJson(contactsJsonCache, contactsFile),
                     getGroupsJson(groupsJsonCache, groupsFile))

Consulted(out, what) == \E i \in 1..Len(out.consulted) : out.consulted[i] = what

\* The file parses to a JSON value that is not a list and is falsy: null,
\* false, 0 or ""
Falsy(file) == "falsy" \in DOMAIN file

\* The loader keeping an empty list whatever it has read
CacheAfterCall_KeepsEmpty(cache, file) == [loaded |-> TRUE, list |-> <<>>]

\* The module's cache variable after a call of its loader: `if (!cache)`
\* reads the file again unless the cache holds a truthy value; what is read
\* is kept, [] when the file is missing or does not parse
CacheAfterCall(cache, file) ==
    IF cache.loaded THEN cache
    ELSE IF file.ok /\ Falsy(file) THEN cache
    ELSE [loaded |-> TRUE, list |-> IF file.ok THEN file.list ELSE <<>>]

ContactsCacheAfter(out) ==
    IF Consulted(out, "contacts.json")
    THEN CacheAfterCall(contactsJsonCache, contactsFile)
    ELSE contactsJsonCache

GroupsCacheAfter(out) ==
    IF Consulted(out, "groups.json")
    THEN CacheAfterCall(groupsJsonCache, groupsFile)
    ELSE groupsJsonCache

-----------------------------------------------------------------------------
(* Transport wrappers (whatsapp.ts)                                        *)

\* One call made during a tool invocation, with whether it succeeded
Call(kind, op, arg, ok) == [kind |-> kind, op |-> op, arg |-> arg, ok |-> ok]

\* What a call into the messaging library can do: succeed, fail with the
\* transient not-acceptable (406) condition, or fail otherwise
Outcomes == {"ok", "406", "error"}

\* sock or sock.user missing
NotConnected(sk) == ~sk.present \/ ~sk.user

\* return; (undefined)
Void(calls) == [sent |-> FALSE, calls |-> calls]

\* return result; (a WAMessage with key.id)
Sent(calls) == [sent |-> TRUE, calls |-> calls]

\* Mutant: any failed attempt is tried again once, for any address.
sendWhatsAppMessage_RetryAnyFailure(sk, recipientJid, text, o) ==
    IF NotConnected(sk) \/ recipientJid = <<>> \/ text = <<>> THEN Void(<<>>)
    ELSE
    LET normalizedJid ==
            IF isJidGroup(recipientJid) THEN recipientJid ELSE jidNormalizedUser(recipientJid)
        attempt(i) == Call("transport", "sendMessage", normalizedJid, o[i] = "ok")
    IN
    IF o[1] = "ok" THEN Sent(<<attempt(1)>>)
    ELSE IF o[2] = "ok" THEN Sent(<<attempt(1), attempt(2)>>)
    ELSE Void(<<attempt(1), attempt(2)>>)

\* sendWhatsAppMessage(logger, sock, recipientJid, text); o[i] is the outcome
\* of the i-th sock.sendMessage
sendWhatsAppMessage(sk, recipientJid, text, o) ==
    IF NotConnected(sk) THEN Void(<<>>)
    ELSE IF recipientJid = <<>> THEN Void(<<>>)
    ELSE IF text = <<>> THEN Void(<<>>)
    ELSE
    LET normalizedJid ==
            IF isJidGroup(recipientJid) THEN recipientJid ELSE jidNormalizedUser(recipientJid)
        maxAttempts == IF isJidGroup(normalizedJid) THEN 2 ELSE 1
        attempt(i) == Call("transport", "sendMessage", normalizedJid, o[i] = "ok")
    IN
    IF o[1] = "ok" THEN Sent(<<attempt(1)>>)
    ELSE IF o[1] = "406" /\ 1 < maxAttempts
    THEN IF o[2] = "ok" THEN Sent(<<attempt(1), attempt(2)>>)
         ELSE Void(<<attempt(1), attempt(2)>>)
    ELSE Void(<<attempt(1)>>)

\* sendWhatsAppMedia(logger, sock, recipientJid, mediaType, mediaPath, ...):
\* fileOk says whether fs.readFileSync(mediaPath) succeeds
sendWhatsAppMedia(sk, recipientJid, fileOk, o) ==
    IF NotConnected(sk) THEN Void(<<>>)
    ELSE IF ~fileOk THEN Void(<<>>)
    ELSE LET normalizedJid == jidNormalizedUser(recipientJid)
             call == Call("transport", "sendMessage", normalizedJid, o = "ok")
         IN IF o = "ok" THEN Sent(<<call>>) ELSE Void(<<call>>)

\* replyToWhatsAppMessage(logger, sock, chatJid, quotedMessageId, ...)
replyToWhatsAppMessage(sk, chatJid, o) ==
    IF NotConnected(sk) THEN Void(<<>>)
    ELSE LET normalizedJid == jidNormalizedUser(chatJid)
             call == Call("transport", "sendMessage", normalizedJid, o = "ok")
         IN IF o = "ok" THEN Sent(<<call>>) ELSE Void(<<call>>)

\* sendWhatsAppReaction(logger, sock, chatJid, messageId, ...): Promise<void>;
\* a failure of sock.sendMessage is logged and not passed on
sendWhatsAppReaction(sk, chatJid, o) ==
    IF NotConnected(sk) THEN Void(<<>>)
    ELSE Void(<<Call("transport", "sendMessage", jidNormalizedUser(chatJid), o = "ok")>>)

\* markWhatsAppChatAsRead(logger, sock, chatJid, lastMessageId, ...):
\* Promise<void>; a failure of sock.readMessages is logged and not passed on
markWhatsAppChatAsRead(sk, chatJid, o) ==
    IF NotConnected(sk) THEN Void(<<>>)
    ELSE Void(<<Call("transport", "readMessages", jidNormalizedUser(chatJid), o = "ok")>>)

\* getWhatsAppGroupMembers(logger, sock, groupJid): the number of members
\* returned; [] when not connected or when sock.groupMetadata fails
getWhatsAppGroupMembers(sk, groupJid, o, members) ==
    IF NotConnected(sk) THEN [n |-> 0, calls |-> <<>>]
    ELSE [n |-> IF o = "ok" THEN members ELSE 0,
          calls |-> <<Call("transport", "groupMetadata", groupJid, o = "ok")>>]

\* contact.name || contact.notify || contact.verifiedName || null
ContactName(contact) ==
    IF contact.name # <<>> THEN contact.name
    ELSE IF contact.notify # <<>> THEN contact.notify
    ELSE contact.verifiedName

\* The entries of sock.contacts that syncContactsFromSock writes: jid && name
Syncable(contactsMap) ==
    SelectSeq(contactsMap, LAMBDA c : c.jid # <<>> /\ ContactName(c) # NoName)

\* The chats table after storeChat for the first k syncable entries
RECURSIVE StoreChats(_, _, _)
StoreChats(db, entries, k) ==
    IF k = 0 THEN db
    ELSE storeChat(StoreChats(db, entries, k - 1), entries[k].jid, ContactName(entries[k]))

\* syncContactsFromSock(logger, sock): failAt is 0 when every storeChat
\* succeeds, else the index of the storeChat that throws (the catch returns 0)
syncContactsFromSock(sk, db, contacts, failAt) ==
    IF ~sk.present THEN [n |-> 0, db |-> db, calls |-> <<>>]
    ELSE IF ~contacts.available THEN [n |-> 0, db |-> db, calls |-> <<>>]
    ELSE
    LET entries == Syncable(contacts.map)
        done == IF failAt = 0 \/ failAt > Len(entries) THEN Len(entries) ELSE failAt - 1
        failed == done < Len(entries)
    IN [n |-> IF failed THEN 0 ELSE done,
        db |-> StoreChats(db, entries, done),
        calls |-> [i \in 1..(IF failed THEN done + 1 ELSE done) |->
                      Call("store", "storeChat", entries[i].jid, i <= done)]]

-----------------------------------------------------------------------------
(* Tool Facade: the handlers registered by startMcpServer (mcp.ts)         *)

NotActiveText == "Error: WhatsApp connection is not active."
MessageSentText == "Message sent successfully to ${normalizedRecipient} (ID: ${result.key.id})."
MessageFailedText == "Failed to send message to ${normalizedRecipient}. See server logs for details."
MediaSentText == "Media sent successfully to ${normalizedRecipient} (ID: ${result.key.id})."
MediaFailedText == "Failed to send media to ${normalizedRecipient}."
MessageNotFoundText == "Message with ID ${message_id} not found in local database."
ReplySentText == "Reply sent successfully (ID: ${result.key.id})."
ReplyFailedText == "Failed to send reply."
ReactionSentText == "Reaction \"${emoji}\" sent successfully on message ${message_id}."
NoMessagesText == "No messages found for chat ${chat_jid}."
MarkedReadText == "Chat ${chat_jid} marked as read."
InvalidGroupText == "Invalid group JID: \"${group_jid}\". Group JIDs must end with \"@g.us\"."
NoMembersText == "No members found for group ${group_jid} (or group does not exist)."
MembersText == "JSON.stringify(members, null, 2)"
SyncedText ==
    "Synced ${count} contact names from WhatsApp into the local database. You can now search contacts by name."
NothingSyncedText ==
    "No contact names were found to sync. The contacts map may not be populated yet - try again in a few seconds after the connection has fully loaded."

\* A response text: the template and the value put into it
Text(t, arg) == [list |-> <<>>, recipient |-> arg, t |-> t]

\* return { isError?, content: [{ type: "text", text }] }
Response(tool, arg, isError, text, calls, n) ==
    [tool |-> tool, arg |-> arg, threw |-> FALSE, isError |-> isError,
     text |-> text, calls |-> calls, n |-> n]

\* The handler's promise rejects: an exception leaves the handler
Thrown(tool, arg, calls) ==
    [tool |-> tool, arg |-> arg, threw |-> TRUE, isError |-> FALSE,
     text |-> Text("", <<>>), calls |-> calls, n |-> 0]

\* The resolver's search of the Store throws (a data-layer error)
ResolverThrows(recipient, storeFails) ==
    storeFails /\ ~Includes(recipient, <<"@">>) /\ ~PhoneRegex(recipient)

\* The calls resolveRecipient(recipient) makes
ResolverCalls(recipient, out) ==
    <<Call("resolver", "resolveRecipient", recipient, out.ok)>>
    \o (IF Consulted(out, "db")
        THEN <<Call("store", "searchDbForContacts", recipient, TRUE)>> ELSE <<>>)
    \o (IF Consulted(out, "contacts.json")
        THEN <<Call("fallback", "searchContactsJson", recipient, TRUE)>> ELSE <<>>)
    \o (IF Consulted(out, "groups.json")
        THEN <<Call("fallback", "searchGroupsJson", recipient, TRUE)>> ELSE <<>>)

ResolverThrownCalls(recipient) ==
    <<Call("resolver", "resolveRecipient", recipient, FALSE),
      Call("store", "searchDbForContacts", recipient, FALSE)>>

\* send_message, lines 537-585: resolve the recipient, then dispatch
SendMessageConnected(recipient, message, storeFails, o) ==
    IF ResolverThrows(recipient, storeFails)
    THEN Thrown("send_message", recipient, ResolverThrownCalls(recipient))
    ELSE
    LET resolved == ResolveNow(recipient)
        rcalls == ResolverCalls(recipient, resolved)
    IN
    IF ~resolved.ok
    THEN Response("send_message", recipient, TRUE, resolved.error, rcalls, 0)
    ELSE LET result == sendWhatsAppMessage(sock, resolved.jid, message, o) IN
         IF result.sent
         THEN Response("send_message", recipient, FALSE,
                       Text(MessageSentText, resolved.jid), rcalls \o result.calls, 0)
         ELSE Response("send_message", recipient, TRUE,
                       Text(MessageFailedText, resolved.jid), rcalls \o result.calls, 0)

\* Mutant: the recipient is resolved before the socket is looked at.
send_message_ResolveFirst(recipient, message, storeFails, o) ==
    IF ~sock.present /\ ~ResolverThrows(recipient, storeFails)
    THEN Response("send_message", recipient, TRUE, Text(NotActiveText, <<>>),
                  ResolverCalls(recipient, ResolveNow(recipient)), 0)
    ELSE SendMessageConnected(recipient, message, storeFails, o)

\* send_message({ recipient, message })
send_message(recipient, message, storeFails, o) ==
    IF ~sock.present
    THEN Response("send_message", recipient, TRUE, Text(NotActiveText, <<>>), <<>>, 0)
    ELSE SendMessageConnected(recipient, message, storeFails, o)

\* Mutant: a resolver failure is answered with the tool's own failure text.
send_media_OwnFailureText(recipient, fileOk, storeFails, o) ==
    IF ~sock.present
    THEN Response("send_media", recipient, TRUE, Text(NotActiveText, <<>>), <<>>, 0)
    ELSE IF ResolverThrows(recipient, storeFails)
    THEN Thrown("send_media", recipient, ResolverThrownCalls(recipient))
    ELSE
    LET resolved == ResolveNow(recipient)
        rcalls == ResolverCalls(recipient, resolved)
        result == sendWhatsAppMedia(sock, resolved.jid, fileOk, o)
    IN
    IF resolved.ok /\ result.sent
    THEN Response("send_media", recipient, FALSE,
                  Text(MediaSentText, resolved.jid), rcalls \o result.calls, 0)
    ELSE Response("send_media", recipient, TRUE, Text(MediaFailedText, recipient),
                  IF resolved.ok THEN rcalls \o result.calls ELSE rcalls, 0)

\* send_media({ recipient, media_type, media_path, caption, file_name })
send_media(recipient, fileOk, storeFails, o) ==
    IF ~sock.present
    THEN Response("send_media", recipient, TRUE, Text(NotActiveText, <<>>), <<>>, 0)
    ELSE IF ResolverThrows(recipient, storeFails)
    THEN Thrown("send_media", recipient, ResolverThrownCalls(recipient))
    ELSE
    LET resolved == ResolveNow(recipient)
        rcalls == ResolverCalls(recipient, resolved)
    IN
    IF ~resolved.ok
    THEN Response("send_media", recipient, TRUE, resolved.error, rcalls, 0)
    ELSE LET result == sendWhatsAppMedia(sock, resolved.jid, fileOk, o) IN
         IF result.sent
         THEN Response("send_media", recipient, FALSE,
                       Text(MediaSentText, resolved.jid), rcalls \o result.calls, 0)
         ELSE Response("send_media", recipient, TRUE,
                       Text(MediaFailedText, resolved.jid), rcalls \o result.calls, 0)

\* reply_to_message({ message_id, reply_text }); targets are the rows
\* getMessagesAround(message_id, 0, 0) may give as context.target
reply_to_message(message_id, targets, storeFails, o) ==
    IF ~sock.present
    THEN Response("reply_to_message", message_id, TRUE, Text(NotActiveText, <<>>), <<>>, 0)
    ELSE IF storeFails
    THEN Thrown("reply_to_message", message_id,
                <<Call("store", "getMessagesAround", message_id, FALSE)>>)
    ELSE
    LET lookup == <<Call("store", "getMessagesAround", message_id, TRUE)>> IN
    IF targets = {}
    THEN Response("reply_to_message", message_id, TRUE,
                  Text(MessageNotFoundText, message_id), lookup, 0)
    ELSE LET target == CHOOSE m \in targets : TRUE
             result == replyToWhatsAppMessage(sock, target.chat_jid, o)
         IN IF result.sent
            THEN Response("reply_to_message", message_id, FALSE,
                          Text(ReplySentText, <<>>), lookup \o result.calls, 0)
            ELSE Response("reply_to_message", message_id, TRUE,
                          Text(ReplyFailedText, <<>>), lookup \o result.calls, 0)

\* send_reaction({ message_id, emoji })
send_reaction(message_id, targets, storeFails, o) ==
    IF ~sock.present
    THEN Response("send_reaction", message_id, TRUE, Text(NotActiveText, <<>>), <<>>, 0)
    ELSE IF storeFails
    THEN Thrown("send_reaction", message_id,
                <<Call("store", "getMessagesAround", message_id, FALSE)>>)
    ELSE
    LET lookup == <<Call("store", "getMessagesAround", message_id, TRUE)>> IN
    IF targets = {}
    THEN Response("send_reaction", message_id, TRUE,
                  Text(MessageNotFoundText, message_id), lookup, 0)
    ELSE LET target == CHOOSE m \in targets : TRUE
             result == sendWhatsAppReaction(sock, target.chat_jid, o)
         IN Response("send_reaction", message_id, FALSE,
                     Text(ReactionSentText, message_id), lookup \o result.calls, 0)

\* Mutant: the chat is marked as read without a look at what the lookup gave.
mark_as_read_NoCheck(chat_jid, storeFails, o) ==
    IF ~sock.present
    THEN Response("mark_as_read", chat_jid, TRUE, Text(NotActiveText, <<>>), <<>>, 0)
    ELSE IF storeFails
    THEN Thrown("mark_as_read", chat_jid, <<Call("store", "getMessages", chat_jid, FALSE)>>)
    ELSE Response("mark_as_read", chat_jid, FALSE, Text(MarkedReadText, chat_jid),
                  <<Call("store", "getMessages", chat_jid, TRUE)>>
                  \o markWhatsAppChatAsRead(sock, chat_jid, o).calls, 0)

\* mark_as_read({ chat_jid })
mark_as_read(chat_jid, storeFails, o) ==
    IF ~sock.present
    THEN Response("mark_as_read", chat_jid, TRUE, Text(NotActiveText, <<>>), <<>>, 0)
    ELSE IF storeFails
    THEN Thrown("mark_as_read", chat_jid, <<Call("store", "getMessages", chat_jid, FALSE)>>)
    ELSE
    LET lookup == <<Call("store", "getMessages", chat_jid, TRUE)>>
        msgs == getMessages(messages, chat_jid, 1, 0)
    IN
    IF Len(msgs) = 0
    THEN Response("mark_as_read", chat_jid, TRUE, Text(NoMessagesText, chat_jid), lookup, 0)
    ELSE LET result == markWhatsAppChatAsRead(sock, chat_jid, o) IN
         Response("mark_as_read", chat_jid, FALSE,
                  Text(MarkedReadText, chat_jid), lookup \o result.calls, 0)

\* get_group_members without its test of the group suffix
get_group_members_AnyAddress(group_jid, o, members) ==
    IF ~sock.present
    THEN Response("get_group_members", group_jid, TRUE, Text(NotActiveText, <<>>), <<>>, 0)
    ELSE LET result == getWhatsAppGroupMembers(sock, group_jid, o, members) IN
         IF result.n = 0
         THEN Response("get_group_members", group_jid, FALSE,
                       Text(NoMembersText, group_jid), result.calls, 0)
         ELSE Response("get_group_members", group_jid, FALSE,
                       Text(MembersText, group_jid), result.calls, result.n)

\* get_group_members({ group_jid })
get_group_members(group_jid, o, members) ==
    IF ~sock.present
    THEN Response("get_group_members", group_jid, TRUE, Text(NotActiveText, <<>>), <<>>, 0)
    ELSE IF ~EndsWith(group_jid, G_US)
    THEN Response("get_group_members", group_jid, TRUE,
                  Text(InvalidGroupText, group_jid), <<>>, 0)
    ELSE LET result == getWhatsAppGroupMembers(sock, group_jid, o, members) IN
         IF result.n = 0
         THEN Response("get_group_members", group_jid, FALSE,
                       Text(NoMembersText, group_jid), result.calls, 0)
         ELSE Response("get_group_members", group_jid, FALSE,
                       Text(MembersText, group_jid), result.calls, result.n)

\* sync_contacts({})
sync_contacts(contacts, failAt) ==
    IF ~sock.present
    THEN Response("sync_contacts", <<>>, TRUE, Text(NotActiveText, <<>>), <<>>, 0)
    ELSE LET result == syncContactsFromSock(sock, chats, contacts, failAt) IN
         Response("sync_contacts", <<>>, FALSE,
                  Text(IF result.n > 0 THEN SyncedText ELSE NothingSyncedText, <<>>),
                  result.calls, result.n)

\* The texts of the read tools
ContactsJsonText == "JSON.stringify(formattedContacts, null, 2)"
SearchContactsErrorText == "Error searching contacts: ${error.message}"
NoMoreMessagesText == "No more messages found on page ${page} for chat ${chat_jid}."
MessagesJsonText == "JSON.stringify(formattedMessages, null, 2)"
ListMessagesErrorText == "Error listing messages for ${chat_jid}: ${error.message}"
NoChatsText == "No chats found${query ? matching \"${query}\" : \"\"}."
NoMoreChatsText == "No more chats found on page ${page}${query ? matching \"${query}\" : \"\"}."
ChatsJsonText == "JSON.stringify(formattedChats, null, 2)"
ListChatsErrorText == "Error listing chats: ${error.message}"
ChatNotFoundText == "Chat with JID ${chat_jid} not found."
ChatJsonText == "JSON.stringify(formattedChat, null, 2)"
GetChatErrorText == "Error retrieving chat ${chat_jid}: ${error.message}"
ContextNotFoundText == "Message with ID ${message_id} not found."
ContextJsonText == "JSON.stringify(formattedContext, null, 2)"
ContextErrorText == "Error retrieving context for message ${message_id}: ${error.message}"
NoMessagesContainingText == "No messages found containing \"${query}\" in chat ${chat_jid}."
NoMoreMessagesContainingText ==
    "No more messages found containing \"${query}\" on page ${page} for chat ${chat_jid}."
SearchMessagesErrorText == "Error searching messages in chat ${chat_jid}: ${error.message}"

\* search_contacts uses searchDbForContacts(query, 20)
SearchContactsLimit == 20

\* A read tool's answer: what the Store call gave (its rows, or its failure
\* caught by the handler) turned into the response
ReadResponse(tool, arg, op, storeFails, errorText, isError, text, n) ==
    IF storeFails
    THEN Response(tool, arg, TRUE, Text(errorText, arg), <<Call("store", op, arg, FALSE)>>, 0)
    ELSE Response(tool, arg, isError, text, <<Call("store", op, arg, TRUE)>>, n)

\* search_contacts({ query })
search_contacts(query, storeFails) ==
    LET contacts == searchDbForContacts(chats, query, SearchContactsLimit) IN
    ReadResponse("search_contacts", [query |-> query], "searchDbForContacts", storeFails,
                 SearchContactsErrorText, FALSE,
                 Text(ContactsJsonText, contacts), Len(contacts))

\* Mutant: list_messages asks for the socket first, like the write tools.
list_messages_NeedsSock(chat_jid, limit, page, storeFails) ==
    LET arg == [chat_jid |-> chat_jid, limit |-> limit, page |-> page]
        msgs == getMessages(messages, chat_jid, limit, page)
    IN
    IF ~sock.present
    THEN Response("list_messages", arg, TRUE, Text(NotActiveText, <<>>), <<>>, 0)
    ELSE ReadResponse("list_messages", arg, "getMessages", storeFails, ListMessagesErrorText,
                      FALSE, Text(MessagesJsonText, msgs), Len(msgs))

\* list_messages({ chat_jid, limit, page })
list_messages(chat_jid, limit, page, storeFails) ==
    LET arg == [chat_jid |-> chat_jid, limit |-> limit, page |-> page]
        msgs == getMessages(messages, chat_jid, limit, page)
    IN
    ReadResponse("list_messages", arg, "getMessages", storeFails, ListMessagesErrorText, FALSE,
                 IF Len(msgs) = 0 /\ page = 0 THEN Text(NoMessagesText, <<chat_jid>>)
                 ELSE IF Len(msgs) = 0 THEN Text(NoMoreMessagesText, <<page, chat_jid>>)
                 ELSE Text(MessagesJsonText, msgs),
                 Len(msgs))

\* Mutant: an empty page of chats gets the same text whatever the page.
list_chats_OneEmptyText(limit, page, sort_by, query, storeFails) ==
    LET arg == [limit |-> limit, page |-> page, sort_by |-> sort_by, query |-> query]
        found == getChats(chats, limit, page, sort_by, query)
    IN
    ReadResponse("list_chats", arg, "getChats", storeFails, ListChatsErrorText, FALSE,
                 IF Len(found) = 0 THEN Text(NoChatsText, <<query>>)
                 ELSE Text(ChatsJsonText, found),
                 Len(found))

\* list_chats({ limit, page, sort_by, query, include_last_message })
list_chats(limit, page, sort_by, query, storeFails) ==
    LET arg == [limit |-> limit, page |-> page, sort_by |-> sort_by, query |-> query]
        found == getChats(chats, limit, page, sort_by, query)
    IN
    ReadResponse("list_chats", arg, "getChats", storeFails, ListChatsErrorText, FALSE,
                 IF Len(found) = 0 /\ page = 0 THEN Text(NoChatsText, <<query>>)
                 ELSE IF Len(found) = 0 THEN Text(NoMoreChatsText, <<page, query>>)
                 ELSE Text(ChatsJsonText, found),
                 Len(found))

\* get_chat({ chat_jid, include_last_message })
get_chat(chat_jid, storeFails) ==
    LET chat == getChat(chats, chat_jid) IN
    ReadResponse("get_chat", [chat_jid |-> chat_jid], "getChat", storeFails, GetChatErrorText,
                 chat = {},
                 IF chat = {} THEN Text(ChatNotFoundText, <<chat_jid>>)
                 ELSE Text(ChatJsonText, chat),
                 Cardinality(chat))

\* get_message_context({ message_id, before, after }); targets are the rows
\* the lookup by id may give as context.target
get_message_context(message_id, targets, before, after, storeFails) ==
    LET arg == [message_id |-> message_id, before |-> before, after |-> after] IN
    IF targets = {}
    THEN ReadResponse("get_message_context", arg, "getMessagesAround", storeFails,
                      ContextErrorText, TRUE, Text(ContextNotFoundText, <<message_id>>), 0)
    ELSE LET context == getMessagesAround(messages, CHOOSE m \in targets : TRUE, before, after)
         IN ReadResponse("get_message_context", arg, "getMessagesAround", storeFails,
                         ContextErrorText, FALSE, Text(ContextJsonText, context),
                         Len(context.before) + 1 + Len(context.after))

\* search_messages({ chat_jid, query, limit, page })
search_messages(query, chat_jid, limit, page, storeFails) ==
    LET arg == [query |-> query, chat_jid |-> chat_jid, limit |-> limit, page |-> page]
        msgs == searchMessages(messages, query, chat_jid, limit, page)
    IN
    ReadResponse("search_messages", arg, "searchMessages", storeFails,
                 SearchMessagesErrorText, FALSE,
                 IF Len(msgs) = 0 /\ page = 0
                 THEN Text(NoMessagesContainingText, <<query, chat_jid>>)
                 ELSE IF Len(msgs) = 0
                 THEN Text(NoMoreMessagesContainingText, <<query, page, chat_jid>>)
                 ELSE Text(MessagesJsonText, msgs),
                 Len(msgs))

-----------------------------------------------------------------------------
(* Data of the resolver specifications *)

Str_ann == <<"a", "n", "n">>
Str_FAM == <<"F", "A", "M">>
Str_zed == <<"z", "e", "d">>
Str_family == <<"f", "a", "m", "i", "l", "y">>
Str_bob == <<"b", "o", "b">>

ChatAnn ==
    [jid |-> <<"1", "2">> \o S_WHATSAPP_NET, name |-> <<"A", "n", "n">>,
     last_message_time |-> 2, last_message |-> <<"h", "i">>, last_sender |-> <<>>,
     last_is_from_me |-> TRUE]
ChatNoName ==
    [jid |-> <<"3", "4">> \o S_WHATSAPP_NET, name |-> NoName, last_message_time |-> 1,
     last_message |-> <<"h", "i">>, last_sender |-> <<"3", "4">> \o S_WHATSAPP_NET,
     last_is_from_me |-> FALSE]
ChatFam ==
    [jid |-> <<"5", "-", "6">> \o G_US, name |-> <<"F", "a", "m">>,
     last_message_time |-> NoTime, last_message |-> <<>>, last_sender |-> <<>>,
     last_is_from_me |-> FALSE]

StoreChoices == SUBSET {ChatAnn, ChatNoName, ChatFam}

EZedNoPhone ==
    [display |-> <<"Z", "e", "d", " ", "A">>, first |-> <<>>, last |-> <<>>, phone |-> <<>>]
EZedDash ==
    [display |-> <<>>, first |-> <<"Z", "e", "d">>, last |-> <<"D">>, phone |-> <<"-", "-">>]
EZed ==
    [display |-> <<>>, first |-> <<"Z", "e", "d">>, last |-> <<>>,
     phone |-> <<"+", "1", " ", "2", "3">>]
EAnnie ==
    [display |-> <<"A", "n", "n", "i", "e">>, first |-> <<>>, last |-> <<>>,
     phone |-> <<"7", "7">>]

ContactEntries == {EZedNoPhone, EZedDash, EZed, EAnnie}

GFamily == [name |-> <<"F", "a", "m", "i", "l", "y">>, jid |-> <<"7", "-", "8">> \o G_US]
GFamTwo == [name |-> <<"F", "a", "m", " ", "T", "w", "o">>, jid |-> <<"9", "-", "0">> \o G_US]
GZedClub == [name |-> <<"Z", "e", "d", " ", "C", "l", "u", "b">>, jid |-> <<"1", "-", "1">> \o G_US]

GroupEntries == {GFamily, GFamTwo, GZedClub}

\* The lists of at most n distinct entries of S, in every order
ListsOf(S, n) ==
    UNION {{ls \in [1..k -> S] : \A i, j \in 1..k : i # j => ls[i] # ls[j]} : k \in 0..n}

MissingFile == [ok |-> FALSE, list |-> <<>>]

ContactFileChoices ==
    {MissingFile} \cup {[ok |-> TRUE, list |-> ls] : ls \in ListsOf(ContactEntries, MaxContacts)}

GroupFileChoices ==
    {MissingFile} \cup {[ok |-> TRUE, list |-> ls] : ls \in ListsOf(GroupEntries, MaxGroups)}

\* Recipients that are neither address-shaped nor phone-shaped
NameRecipients ==
    {Str_ann, Str_FAM, Str_zed, Str_family, Str_bob, Tail(S_WHATSAPP_NET), <<>>}

NoCache == [loaded |-> FALSE, list |-> <<>>]
NoSock == [present |-> FALSE, user |-> FALSE]
NoRes == [called |-> FALSE, out |-> ResolvedJid(<<>>, "", <<>>), recipient |-> <<>>]
NoResp == Response("", <<>>, FALSE, Text("", <<>>), <<>>, 0)

-----------------------------------------------------------------------------
(* Specification of the resolver on name-form recipients *)

InitResolve ==
    /\ chats \in StoreChoices
    /\ messages = {}
    /\ contactsFile \in ContactFileChoices
    /\ groupsFile \in GroupFileChoices
    /\ contactsJsonCache = NoCache
    /\ groupsJsonCache = NoCache
    /\ sock = NoSock
    /\ input = <<>>
    /\ res = NoRes
    /\ resp = NoResp

\* A call resolveRecipient(recipient)
Resolve(recipient) ==
    \E out \in {ResolveNow(recipient)} :
    /\ res' = [called |-> TRUE, out |-> out, recipient |-> recipient]
    /\ contactsJsonCache' = ContactsCacheAfter(out)
    /\ groupsJsonCache' = GroupsCacheAfter(out)
    /\ UNCHANGED <<chats, messages, contactsFile, groupsFile, sock, input, resp>>

ResolveName == \E recipient \in NameRecipients : Resolve(recipient)

NextResolve == ResolveName

SpecResolve == InitResolve /\ [][NextResolve]_vars

-----------------------------------------------------------------------------
(* Specification of the resolver on address-shaped and phone-shaped input  *)

ShapeAlphabet == {"1", "-", "+"}

Prefixes == UNION {[1..k -> ShapeAlphabet] : k \in 0..MaxPrefixLen}

Suffixes == {<<>>, <<"@">>, G_US, S_WHATSAPP_NET, C_US}

\* The recipients of the README and of the tool descriptions, and addresses
\* with a device or an agent part
ReadmePhone == <<"+", "9", "1", " ", "9", "9", "1", "9", "0", " ", "0", "3", "1", "4", "1">>
ReadmeDigits == <<"9", "1", "9", "9", "1", "9", "0", "0", "3", "1", "4", "1">>

CuratedRecipients ==
    {ReadmePhone, ReadmeDigits, ReadmeDigits \o S_WHATSAPP_NET,
     <<"1", "2", "3", "-", "9", "8", "7">> \o G_US,
     <<"1", ":", "2">> \o G_US, <<"1", "_", "2">> \o G_US,
     <<"1", "2", ":", "3">> \o S_WHATSAPP_NET, <<"1", "2", "_", "3">> \o C_US,
     <<"1", " ", "2", " ", "3", " ", "4">>, <<"1", "2", "3", "4", "5", "6", "\n">>}

ShapeRecipients ==
    {p \o x : p \in Prefixes, x \in Suffixes} \cup CuratedRecipients

InitShape ==
    /\ chats = {ChatAnn, ChatNoName, ChatFam}
    /\ messages = {}
    /\ contactsFile = [ok |-> TRUE, list |-> <<EZed>>]
    /\ groupsFile = [ok |-> TRUE, list |-> <<GFamily, GZedClub>>]
    /\ contactsJsonCache = NoCache
    /\ groupsJsonCache = NoCache
    /\ sock = NoSock
    /\ input \in ShapeRecipients
    /\ res = NoRes
    /\ resp = NoResp

\* The call resolveRecipient(input)
ResolveShaped == ~res.called /\ Resolve(input)

NextShape == ResolveShaped

SpecShape == InitShape /\ [][NextShape]_vars

-----------------------------------------------------------------------------
(* Properties of the resolver *)

\* The recipient is treated as a contact or group name
NameForm(recipient) == ~Includes(recipient, <<"@">>) /\ ~PhoneRegex(recipient)

\* What the Store answers to the resolver's search in the current state
StoreMatches(recipient) == searchDbForContacts(chats, recipient, ResolverSearchLimit)

\* The fallback lists as the resolver sees them in the current state
ContactsNow == getContactsJson(contactsJsonCache, contactsFile)
GroupsNow == getGroupsJson(groupsJsonCache, groupsFile)

\* An entry of contacts.json that matches the name and has phone digits
IndividualFallbackMatch(recipient) ==
    \E i \in 1..Len(ContactsNow) :
        /\ EntryNameMatches(ContactsNow[i], recipient)
        /\ StripNonDigits(ContactsNow[i].phone) # <<>>

\* The candidate list the resolver is to print for a sequence of matches
CandidateList(matches) ==
    JoinLines([i \in 1..Len(matches) |->
        Bullet(IF matches[i].name = NoName THEN Unknown ELSE matches[i].name,
               matches[i].jid)])

DigitCount(str) == Len(StripNonDigits(str))

\* C5: for a name-form recipient with at least one Store match, neither
\* fallback list is consulted and the outcome is the one the Store matches
\* alone give (the same with both fallback lists empty).
C5_StoreAuthoritative ==
    (res.called /\ NameForm(res.recipient) /\ Len(StoreMatches(res.recipient)) >= 1)
    => /\ res.out.consulted = <<"db">>
       /\ res.out = resolveRecipient(res.recipient, chats, <<>>, <<>>)
       /\ res.out = ResolveFromStore(res.recipient, StoreMatches(res.recipient))

\* C5 witness: a resolution with a Store match while a fallback list matches too.
C5_Witness ==
    /\ res.called /\ NameForm(res.recipient)
    /\ Len(StoreMatches(res.recipient)) >= 1
    /\ \/ IndividualFallbackMatch(res.recipient)
       \/ Len(searchGroupsJson(res.recipient, GroupsNow)) >= 1

\* C6: the group fallback list is consulted only if no individual match
\* exists anywhere: the Store had no match and no entry of the contact
\* fallback list matches the name (with phone digits to build an address).
C6_GroupsOnlyWithoutIndividual ==
    (res.called /\ Consulted(res.out, "groups.json"))
    => /\ Len(StoreMatches(res.recipient)) = 0
       /\ ~IndividualFallbackMatch(res.recipient)

\* C7: the Store step: no match falls through to the fallbacks, one match
\* returns its address, several fail with the list of every match.
C7_StoreStep ==
    (res.called /\ NameForm(res.recipient))
    => LET m == StoreMatches(res.recipient) IN
       /\ Len(m) = 0 => Consulted(res.out, "contacts.json") /\ res.out.via # "db"
       /\ Len(m) = 1 => res.out.ok /\ res.out.jid = m[1].jid /\ res.out.via = "db"
       /\ Len(m) > 1 =>
            /\ ~res.out.ok
            /\ res.out.error.t = MultipleContactsText
            /\ res.out.error.recipient = res.recipient
            /\ res.out.error.list = CandidateList(m)

\* C7 witness: a resolution that failed with several Store matches.
C7_Witness ==
    /\ res.called /\ NameForm(res.recipient)
    /\ Len(StoreMatches(res.recipient)) > 1
    /\ ~res.out.ok

\* C8: with nothing from the Store and the contact fallback, the group step:
\* no group fails with the not-found text, one returns its address, several
\* fail with the list of all matching groups in list order.
C8_GroupStep ==
    (/\ res.called /\ NameForm(res.recipient)
     /\ Len(StoreMatches(res.recipient)) = 0
     /\ searchContactsJson(res.recipient, ContactsNow) = <<>>)
    => LET g == searchGroupsJson(res.recipient, GroupsNow) IN
       /\ Len(g) = 0 => ~res.out.ok /\ res.out.error.t = NotFoundText
                        /\ res.out.error.recipient = res.recipient
       /\ Len(g) = 1 => res.out.ok /\ res.out.jid = g[1].jid
       /\ Len(g) > 1 =>
            /\ ~res.out.ok
            /\ res.out.error.t = MultipleGroupsText
            /\ res.out.error.recipient = res.recipient
            /\ res.out.error.list = CandidateList(g)

\* C8 witness: a resolution that failed with several fallback groups.
C8_Witness ==
    /\ res.called /\ NameForm(res.recipient)
    /\ Len(StoreMatches(res.recipient)) = 0
    /\ searchContactsJson(res.recipient, ContactsNow) = <<>>
    /\ Len(searchGroupsJson(res.recipient, GroupsNow)) > 1
    /\ ~res.out.ok

\* C9: an address-shaped recipient of group shape is returned unchanged,
\* with no Store or fallback lookup.
C9_GroupPassThrough ==
    (res.called /\ Includes(res.recipient, <<"@">>) /\ EndsWith(res.recipient, G_US))
    => /\ res.out.ok
       /\ res.out.jid = res.recipient
       /\ res.out.consulted = <<>>

\* C9 witness: a group address with a device part, which normalisation would change.
C9_Witness ==
    /\ res.called
    /\ EndsWith(res.recipient, G_US)
    /\ jidNormalizedUser(res.recipient) # res.recipient
    /\ res.out.ok

\* C10: a recipient without "@" is resolved by the phone rule only if it is an
\* optional "+", then digits, spaces and dashes, with at least 7 digits in
\* total; the address is the digits and the individual suffix, so it has at
\* least 7 digits.
C10_PhoneRule ==
    (res.called /\ res.out.via = "phone")
    => /\ \A i \in 1..Len(res.recipient) :
            \/ IsDigit(res.recipient[i]) \/ IsSpace(res.recipient[i])
            \/ res.recipient[i] = "-"
            \/ (i = 1 /\ res.recipient[i] = "+")
       /\ DigitCount(res.recipient) >= 7
       /\ res.out.jid = StripNonDigits(res.recipient) \o S_WHATSAPP_NET
       /\ DigitCount(res.out.jid) >= 7

-----------------------------------------------------------------------------
(* Specification of the tool handlers *)

Str_m1 == <<"m", "1">>
Str_m2 == <<"m", "2">>
Str_m3 == <<"m", "3">>
Str_hi == <<"h", "i">>
Str_a == <<"a">>

MsgAnn1 ==
    [id |-> Str_m1, chat_jid |-> ChatAnn.jid, sender |-> ChatAnn.jid,
     content |-> Str_hi, timestamp |-> 1, is_from_me |-> FALSE]
MsgAnn2 ==
    [id |-> Str_m2, chat_jid |-> ChatAnn.jid, sender |-> <<>>,
     content |-> Str_hi, timestamp |-> 2, is_from_me |-> TRUE]
MsgFam1 ==
    [id |-> Str_m1, chat_jid |-> ChatFam.jid, sender |-> ChatNoName.jid,
     content |-> Str_hi, timestamp |-> 3, is_from_me |-> FALSE]

MessageChoices == SUBSET {MsgAnn1, MsgAnn2, MsgFam1}

SockChoices ==
    {NoSock, [present |-> TRUE, user |-> FALSE], [present |-> TRUE, user |-> TRUE]}

ToolRecipients ==
    {ChatFam.jid, <<"1", ":", "2">> \o G_US, <<"1", "2", ":", "3">> \o S_WHATSAPP_NET,
     ReadmePhone,
     Str_ann, Str_zed, Str_family, Str_bob, Str_a}

MessageIds == {Str_m1, Str_m2, Str_m3}

ChatJids == {ChatAnn.jid, ChatNoName.jid, ChatFam.jid}

\* sock.contacts: not there yet, or a map from jid to the contact's names
ContactZoe ==
    [jid |-> <<"7", "7">> \o S_WHATSAPP_NET, name |-> <<>>,
     notify |-> <<"Z", "o", "e">>, verifiedName |-> <<>>]
ContactNan ==
    [jid |-> ChatNoName.jid, name |-> <<"N", "a", "n">>, notify |-> <<>>,
     verifiedName |-> <<>>]
ContactNameless ==
    [jid |-> <<"8", "8">> \o S_WHATSAPP_NET, name |-> <<>>, notify |-> <<>>,
     verifiedName |-> <<>>]

SockContactsChoices ==
    {[available |-> FALSE, map |-> <<>>],
     [available |-> TRUE, map |-> <<>>],
     [available |-> TRUE, map |-> <<ContactZoe>>],
     [available |-> TRUE, map |-> <<ContactNameless, ContactNan, ContactZoe>>]}

\* The rows a lookup of the id may give as its target: none, or any one of
\* the rows with that id
TargetChoices(id) ==
    IF TargetsOf(messages, id) = {} THEN {{}} ELSE {{m} : m \in TargetsOf(messages, id)}

InitTools ==
    /\ chats = {ChatAnn, ChatNoName, ChatFam}
    /\ messages \in MessageChoices
    /\ contactsFile = [ok |-> TRUE, list |-> <<EZed>>]
    /\ groupsFile = [ok |-> TRUE, list |-> <<GFamily, GZedClub>>]
    /\ contactsJsonCache = NoCache
    /\ groupsJsonCache = NoCache
    /\ sock \in SockChoices
    /\ input = <<>>
    /\ res = NoRes
    /\ resp = NoResp

\* No invocation is being answered
Idle == resp = NoResp

\* The caches after a handler that resolves the recipient
CachesAfterResolve(recipient, storeFails) ==
    IF sock.present /\ ~ResolverThrows(recipient, storeFails)
    THEN /\ contactsJsonCache' = ContactsCacheAfter(ResolveNow(recipient))
         /\ groupsJsonCache' = GroupsCacheAfter(ResolveNow(recipient))
    ELSE UNCHANGED <<contactsJsonCache, groupsJsonCache>>

\* send_message storing the message it has sent
SendMessage_StoresSent ==
    /\ Idle
    /\ \E recipient \in ToolRecipients, storeFails \in BOOLEAN, o \in Outcomes \X Outcomes :
          /\ resp' = send_message(recipient, Str_hi, storeFails, o)
          /\ CachesAfterResolve(recipient, storeFails)
          /\ messages' =
                IF resp'.isError \/ resp'.threw THEN messages
                ELSE storeMessageRows(messages,
                        [id |-> Str_m3, chat_jid |-> resp'.text.recipient, sender |-> <<>>,
                         content |-> Str_hi, timestamp |-> 1, is_from_me |-> TRUE])
    /\ UNCHANGED <<chats, contactsFile, groupsFile, sock, input, res>>

SendMessage ==
    /\ Idle
    /\ \E recipient \in ToolRecipients, storeFails \in BOOLEAN, o \in Outcomes \X Outcomes :
          /\ resp' = send_message(recipient, Str_hi, storeFails, o)
          /\ CachesAfterResolve(recipient, storeFails)
    /\ UNCHANGED <<chats, messages, contactsFile, groupsFile, sock, input, res>>

SendMedia ==
    /\ Idle
    /\ \E recipient \in ToolRecipients, fileOk \in BOOLEAN, storeFails \in BOOLEAN,
          o \in Outcomes :
          /\ resp' = send_media(recipient, fileOk, storeFails, o)
          /\ CachesAfterResolve(recipient, storeFails)
    /\ UNCHANGED <<chats, messages, contactsFile, groupsFile, sock, input, res>>

ReplyToMessage ==
    /\ Idle
    /\ \E message_id \in MessageIds, storeFails \in BOOLEAN, o \in Outcomes :
          \E targets \in TargetChoices(message_id) :
             resp' = reply_to_message(message_id, targets, storeFails, o)
    /\ UNCHANGED <<chats, messages, contactsFile, groupsFile, contactsJsonCache,
                   groupsJsonCache, sock, input, res>>

SendReaction ==
    /\ Idle
    /\ \E message_id \in MessageIds, storeFails \in BOOLEAN, o \in Outcomes :
          \E targets \in TargetChoices(message_id) :
             resp' = send_reaction(message_id, targets, storeFails, o)
    /\ UNCHANGED <<chats, messages, contactsFile, groupsFile, contactsJsonCache,
                   groupsJsonCache, sock, input, res>>

MarkAsRead ==
    /\ Idle
    /\ \E chat_jid \in ChatJids, storeFails \in BOOLEAN, o \in Outcomes :
          resp' = mark_as_read(chat_jid, storeFails, o)
    /\ UNCHANGED <<chats, messages, contactsFile, groupsFile, contactsJsonCache,
                   groupsJsonCache, sock, input, res>>

GetGroupMembers ==
    /\ Idle
    /\ \E group_jid \in ChatJids, o \in Outcomes, members \in 0..1 :
          resp' = get_group_members(group_jid, o, members)
    /\ UNCHANGED <<chats, messages, contactsFile, groupsFile, contactsJsonCache,
                   groupsJsonCache, sock, input, res>>

SyncContacts ==
    /\ Idle
    /\ \E contacts \in SockContactsChoices, failAt \in 0..2 :
          /\ resp' = sync_contacts(contacts, failAt)
          /\ chats' = syncContactsFromSock(sock, chats, contacts, failAt).db
    /\ UNCHANGED <<messages, contactsFile, groupsFile, contactsJsonCache,
                   groupsJsonCache, sock, input, res>>

\* Arguments of the read tools
ReadQueries == {Str_ann, Str_a, Str_hi, Str_bob}
Limits == 1..MaxLimit
Pages == 0..MaxPage
UnknownJid == <<"9", "9">> \o S_WHATSAPP_NET

SearchContacts ==
    /\ Idle
    /\ \E query \in ReadQueries, storeFails \in BOOLEAN :
          resp' = search_contacts(query, storeFails)
    /\ UNCHANGED <<chats, messages, contactsFile, groupsFile, contactsJsonCache,
                   groupsJsonCache, sock, input, res>>

ListMessages ==
    /\ Idle
    /\ \E chat_jid \in ChatJids, limit \in Limits, page \in Pages, storeFails \in BOOLEAN :
          resp' = list_messages(chat_jid, limit, page, storeFails)
    /\ UNCHANGED <<chats, messages, contactsFile, groupsFile, contactsJsonCache,
                   groupsJsonCache, sock, input, res>>

ListChats ==
    /\ Idle
    /\ \E limit \in Limits, page \in Pages, sort_by \in {"last_active", "name"},
          query \in {NoQuery} \cup ReadQueries, storeFails \in BOOLEAN :
          resp' = list_chats(limit, page, sort_by, query, storeFails)
    /\ UNCHANGED <<chats, messages, contactsFile, groupsFile, contactsJsonCache,
                   groupsJsonCache, sock, input, res>>

GetChat ==
    /\ Idle
    /\ \E chat_jid \in ChatJids \cup {UnknownJid}, storeFails \in BOOLEAN :
          resp' = get_chat(chat_jid, storeFails)
    /\ UNCHANGED <<chats, messages, contactsFile, groupsFile, contactsJsonCache,
                   groupsJsonCache, sock, input, res>>

GetMessageContext ==
    /\ Idle
    /\ \E message_id \in MessageIds, before \in 0..1, after \in 0..1, storeFails \in BOOLEAN :
          \E targets \in TargetChoices(message_id) :
             resp' = get_message_context(message_id, targets, before, after, storeFails)
    /\ UNCHANGED <<chats, messages, contactsFile, groupsFile, contactsJsonCache,
                   groupsJsonCache, sock, input, res>>

SearchMessages ==
    /\ Idle
    /\ \E query \in {Str_hi, Str_bob}, chat_jid \in {NoChat} \cup ChatJids,
          limit \in Limits, page \in Pages, storeFails \in BOOLEAN :
          resp' = search_messages(query, chat_jid, limit, page, storeFails)
    /\ UNCHANGED <<chats, messages, contactsFile, groupsFile, contactsJsonCache,
                   groupsJsonCache, sock, input, res>>

\* The response (or the rejection) has been handed to the tool-protocol server
Deliver ==
    /\ ~Idle
    /\ resp' = NoResp
    /\ UNCHANGED <<chats, messages, contactsFile, groupsFile, contactsJsonCache,
                   groupsJsonCache, sock, input, res>>

NextTools ==
    \/ SendMessage
    \/ SendMedia
    \/ ReplyToMessage
    \/ SendReaction
    \/ MarkAsRead
    \/ GetGroupMembers
    \/ SyncContacts
    \/ SearchContacts
    \/ ListMessages
    \/ ListChats
    \/ GetChat
    \/ GetMessageContext
    \/ SearchMessages
    \/ Deliver

SpecTools == InitTools /\ [][NextTools]_vars

-----------------------------------------------------------------------------
(* Properties of the tool handlers *)

WriteTools ==
    {"send_message", "send_media", "reply_to_message", "send_reaction",
     "mark_as_read", "get_group_members", "sync_contacts"}

TransportTools == WriteTools \ {"sync_contacts"}

MessageTools == {"reply_to_message", "send_reaction", "mark_as_read"}

TransportCalls(r) == SelectSeq(r.calls, LAMBDA c : c.kind = "transport")

\* The dispatch failed: the last call into the transport did not succeed
DispatchFailed(r) ==
    /\ TransportCalls(r) # <<>>
    /\ ~TransportCalls(r)[Len(TransportCalls(r))].ok

\* The lookup of the target message gave nothing
TargetAbsent(r) ==
    IF r.tool = "mark_as_read"
    THEN {m \in messages : m.chat_jid = r.arg} = {}
    ELSE TargetsOf(messages, r.arg) = {}

\* C1: with no transport handle each write/dispatch tool answers with the
\* connection-not-active error, having made no resolver, Store or transport
\* call.
C1_NoHandleFailsFirst ==
    (resp.tool \in WriteTools /\ ~sock.present)
    => /\ ~resp.threw
       /\ resp.isError
       /\ resp.text = Text(NotActiveText, <<>>)
       /\ resp.calls = <<>>

\* C1 witness: send_message answered without a transport handle.
C1_Witness ==
    /\ ~sock.present
    /\ resp.tool = "send_message"
    /\ resp.isError

\* C2: a tool whose dispatch into the transport failed answers with the
\* error flag, never with a success response.
C2_DispatchFailureFlagged ==
    (resp.tool \in TransportTools /\ DispatchFailed(resp))
    => resp.isError

\* C3: no tool invocation throws across the tool boundary, whatever Store or
\* resolver call fails during it.
C3_NeverThrows == ~resp.threw

\* C4 as stated: each of reply_to_message, send_reaction and mark_as_read
\* first loads the message with getMessagesAround(id, 0, 0); when it is not
\* there the tool fails with MessageNotFound and makes no transport call.
C4_LoadsViaGetMessagesAround ==
    (resp.tool \in MessageTools /\ sock.present)
    => /\ resp.calls # <<>>
       /\ resp.calls[1].kind = "store"
       /\ resp.calls[1].op = "getMessagesAround"
       /\ (resp.calls[1].ok /\ TargetAbsent(resp))
            => /\ resp.isError
               /\ resp.text.t = MessageNotFoundText
               /\ TransportCalls(resp) = <<>>

\* C4 amended: reply_to_message and send_reaction first look the message up
\* with getMessagesAround(id, 0, 0), mark_as_read first looks up the chat's
\* newest message with getMessages(chat_jid, 1, 0); when the lookup gives no
\* message the tool answers with an error response (message not found, or no
\* messages found for the chat), and the transport is called only after a
\* lookup that gave a message.
C4_LoadsTargetFirst ==
    (resp.tool \in MessageTools /\ sock.present)
    => /\ resp.calls # <<>>
       /\ resp.calls[1] =
            Call("store",
                 IF resp.tool = "mark_as_read" THEN "getMessages" ELSE "getMessagesAround",
                 resp.arg, resp.calls[1].ok)
       /\ (resp.calls[1].ok /\ TargetAbsent(resp))
            => /\ ~resp.threw
               /\ resp.isError
               /\ resp.text =
                    Text(IF resp.tool = "mark_as_read"
                         THEN NoMessagesText ELSE MessageNotFoundText, resp.arg)
       /\ TransportCalls(resp) # <<>> => (resp.calls[1].ok /\ ~TargetAbsent(resp))

\* C4 witness: mark_as_read of a chat without messages, answered with an error.
C4_Witness ==
    /\ sock.present
    /\ resp.tool = "mark_as_read"
    /\ resp.calls # <<>>
    /\ resp.calls[1].ok
    /\ TargetAbsent(resp)
    /\ resp.isError


-----------------------------------------------------------------------------
(* Properties of the resolver on address-shaped input and of the handlers  *)
(* that resolve a recipient                                                *)

\* An address-shaped recipient with an empty user part or an empty server part
MalformedAddress(recipient) ==
    /\ Includes(recipient, <<"@">>)
    /\ \/ IndexOf(recipient, "@") = 1
       \/ IndexOf(recipient, "@") = Len(recipient)

\* C11: a recipient with "@" that is malformed as an address (empty user or
\* empty server part) makes the resolver fail with the invalid-address error;
\* no jid is returned for it.
C11_MalformedAddressFails ==
    (res.called /\ MalformedAddress(res.recipient))
    => /\ ~res.out.ok
       /\ res.out.error.t = InvalidJidText

RecipientTools == {"send_message", "send_media"}

\* C12: send_message and send_media resolve the recipient before any call of
\* the transport; when the resolver fails the response is an error whose text
\* is the resolver's error text and the transport is not called.
C12_ResolverErrorVerbatim ==
    (resp.tool \in RecipientTools /\ sock.present /\ ~resp.threw)
    => /\ resp.calls # <<>>
       /\ resp.calls[1] =
            Call("resolver", "resolveRecipient", resp.arg, ResolveNow(resp.arg).ok)
       /\ ~ResolveNow(resp.arg).ok
            => /\ resp.isError
               /\ resp.text = ResolveNow(resp.arg).error
               /\ TransportCalls(resp) = <<>>

\* C12 witness: send_media answered a recipient the resolver found ambiguous.
C12_Witness ==
    /\ sock.present
    /\ resp.tool = "send_media"
    /\ ~resp.threw
    /\ ~ResolveNow(resp.arg).ok
    /\ ResolveNow(resp.arg).error.t = MultipleContactsText
    /\ resp.isError


\* C33: when the recipient of send_message or send_media resolves to a group
\* address, every send call of the transport is given exactly the address the
\* resolver gave.
C33_GroupAddressUnchanged ==
    (resp.tool \in RecipientTools /\ sock.present /\ ~resp.threw
     /\ ResolveNow(resp.arg).ok /\ isJidGroup(ResolveNow(resp.arg).jid))
    => \A k \in 1..Len(resp.calls) :
          resp.calls[k].kind = "transport" => resp.calls[k].arg = ResolveNow(resp.arg).jid

\* C37: get_group_members calls the transport only with an address that ends
\* with "@g.us"; for any other address the response is an error and the
\* transport is not called.
C37_MembersOnlyOfGroups ==
    resp.tool = "get_group_members"
    => /\ \A k \in 1..Len(resp.calls) :
             resp.calls[k].kind = "transport" => EndsWith(resp.calls[k].arg, G_US)
       /\ ~EndsWith(resp.arg, G_US)
            => /\ ~resp.threw
               /\ resp.isError
               /\ TransportCalls(resp) = <<>>

\* With the connection there, the members of a contact's address were asked
\* for and the answer names the address as not a group's
C37_Witness ==
    /\ sock.present
    /\ sock.user
    /\ resp.tool = "get_group_members"
    /\ resp.arg = ChatAnn.jid
    /\ resp.isError
    /\ resp.text = Text(InvalidGroupText, ChatAnn.jid)

-----------------------------------------------------------------------------
(* Specification of text dispatch (whatsapp.ts sendWhatsAppMessage)        *)

DispatchJids ==
    {ChatFam.jid, <<"1", ":", "2">> \o G_US, ChatAnn.jid,
     <<"1", "2", ":", "3">> \o S_WHATSAPP_NET, <<"1", "2">> \o C_US, <<>>}

DispatchTexts == {Str_hi, <<>>}

\* The arguments of one call and the outcomes of its sock.sendMessage calls
DispatchInputs ==
    [recipientJid : DispatchJids, text : DispatchTexts, o : Outcomes \X Outcomes]

InitDispatch ==
    /\ chats = {ChatAnn, ChatNoName, ChatFam}
    /\ messages = {}
    /\ contactsFile = MissingFile
    /\ groupsFile = MissingFile
    /\ contactsJsonCache = NoCache
    /\ groupsJsonCache = NoCache
    /\ sock \in SockChoices
    /\ input \in DispatchInputs
    /\ res = NoRes
    /\ resp = NoResp

\* The call sendWhatsAppMessage(logger, sock, input.recipientJid, input.text)
Dispatch ==
    /\ ~res.called
    /\ res' = [called |-> TRUE,
               out |-> sendWhatsAppMessage(sock, input.recipientJid, input.text, input.o),
               recipient |-> input.recipientJid]
    /\ UNCHANGED <<chats, messages, contactsFile, groupsFile, contactsJsonCache,
                   groupsJsonCache, sock, input, resp>>

NextDispatch == Dispatch

SpecDispatch == InitDispatch /\ [][NextDispatch]_vars

\* C13: sendWhatsAppMessage calls the transport's send at most twice for a
\* group address and at most once for any other; a second attempt is made only
\* after a first attempt that failed with the not-acceptable (406) condition;
\* any other failure, and a failure of the second attempt, ends the call with
\* a failure result and no further attempt.
C13_RetryOnlyGroupOnce ==
    res.called
    => LET calls == res.out.calls
           group == isJidGroup(input.recipientJid)
       IN
       /\ \A i \in 1..Len(calls) : calls[i].kind = "transport" /\ calls[i].op = "sendMessage"
       /\ Len(calls) <= (IF group THEN 2 ELSE 1)
       /\ Len(calls) = 2 => input.o[1] = "406"
       /\ \A i \in 1..Len(calls) : calls[i].ok <=> (input.o[i] = "ok")
       /\ \A i \in 1..Len(calls) : calls[i].ok => i = Len(calls)
       /\ (Len(calls) >= 1 /\ input.o[1] = "error") => (Len(calls) = 1 /\ ~res.out.sent)
       /\ (Len(calls) = 2 /\ input.o[2] # "ok") => ~res.out.sent
       /\ res.out.sent <=> (calls # <<>> /\ calls[Len(calls)].ok)

\* C13 witness: a group send whose first attempt failed with 406 and whose
\* second attempt failed too.
C13_Witness ==
    /\ res.called
    /\ isJidGroup(input.recipientJid)
    /\ Len(res.out.calls) = 2
    /\ input.o[1] = "406"
    /\ ~res.out.sent


-----------------------------------------------------------------------------
(* Properties of the read tools *)

ReadTools ==
    {"search_contacts", "list_messages", "list_chats", "get_chat",
     "get_message_context", "search_messages"}

PagedTools == {"list_messages", "list_chats", "search_messages"}

\* The number of rows the Store holds for the request a read tool answered
StoreRows(r) ==
    CASE r.tool = "search_contacts" ->
            Len(searchDbForContacts(chats, r.arg.query, SearchContactsLimit))
      [] r.tool = "list_messages" ->
            Len(getMessages(messages, r.arg.chat_jid, r.arg.limit, r.arg.page))
      [] r.tool = "list_chats" ->
            Len(getChats(chats, r.arg.limit, r.arg.page, r.arg.sort_by, r.arg.query))
      [] r.tool = "get_chat" -> Cardinality(getChat(chats, r.arg.chat_jid))
      [] r.tool = "search_messages" ->
            Len(searchMessages(messages, r.arg.query, r.arg.chat_jid, r.arg.limit, r.arg.page))
      [] r.tool = "get_message_context" ->
            IF TargetsOf(messages, r.arg.message_id) = {} THEN 0 ELSE r.n

\* C14: a read tool never needs the transport: with or without a transport
\* handle it makes its one Store call and no transport call, and answers with
\* what the Store gave.
C14_ReadToolsNeedNoTransport ==
    resp.tool \in ReadTools
    => /\ ~resp.threw
       /\ resp.text.t # NotActiveText
       /\ TransportCalls(resp) = <<>>
       /\ Len(resp.calls) = 1
       /\ resp.calls[1].kind = "store"
       /\ resp.calls[1].ok => resp.n = StoreRows(resp)
       /\ (resp.tool = "get_message_context" /\ resp.calls[1].ok)
            => (resp.n > 0 <=> TargetsOf(messages, resp.arg.message_id) # {})

\* C14 witness: list_messages gave messages while there is no transport handle.
C14_Witness ==
    /\ ~sock.present
    /\ resp.tool = "list_messages"
    /\ ~resp.isError
    /\ resp.n > 0

\* The same request as the one answered, for another page
Again(r, page) ==
    CASE r.tool = "list_messages" ->
            list_messages(r.arg.chat_jid, r.arg.limit, page, FALSE)
      [] r.tool = "list_chats" ->
            list_chats(r.arg.limit, page, r.arg.sort_by, r.arg.query, FALSE)
      [] r.tool = "search_messages" ->
            search_messages(r.arg.query, r.arg.chat_jid, r.arg.limit, page, FALSE)

\* C15: for list_messages, list_chats and search_messages an empty result is
\* a success, and the text for an empty page 0 differs from the text for an
\* empty page N > 0 of the same request.
C15_EmptyPagesDistinct ==
    (resp.tool \in PagedTools /\ resp.calls[1].ok /\ resp.n = 0)
    => /\ ~resp.threw
       /\ ~resp.isError
       /\ \A page \in 0..(MaxPage + 1) :
            (/\ (page = 0) # (resp.arg.page = 0)
             /\ Again(resp, page).n = 0)
            => /\ ~Again(resp, page).isError
               /\ Again(resp, page).text # resp.text

\* C15 witness: search_messages answered an empty page N > 0 of a request
\* whose page 0 is empty too.
C15_Witness ==
    /\ resp.tool = "search_messages"
    /\ resp.calls[1].ok
    /\ resp.n = 0
    /\ resp.arg.page > 0
    /\ Again(resp, 0).n = 0
    /\ ~resp.isError


-----------------------------------------------------------------------------
(* Properties of sync_contacts *)

\* The upsertChat writes performed during the invocation
WritesPerformed(r) ==
    Len(SelectSeq(r.calls, LAMBDA c : c.kind = "store" /\ c.op = "storeChat" /\ c.ok))

\* C16: sync_contacts returns the count of (address, name) pairs written into
\* the Store, the count being the number of upsertChat writes performed; a
\* count of zero is a success with the guidance text.
C16_CountEqualsWrites ==
    (resp.tool = "sync_contacts" /\ sock.present)
    => /\ ~resp.threw
       /\ ~resp.isError
       /\ resp.n = WritesPerformed(resp)
       /\ resp.text.t = (IF resp.n = 0 THEN NothingSyncedText ELSE SyncedText)


\* C24: an invocation of a read tool or of send_message, send_media,
\* reply_to_message, send_reaction, mark_as_read or get_group_members, with
\* whatever outcome, makes no write call to the Store and leaves its chats
\* and messages as they were.
C24_OnlySyncWrites ==
    [][(resp' # NoResp /\ resp'.tool \in ReadTools \cup TransportTools)
       => /\ chats' = chats
          /\ messages' = messages
          /\ \A i \in 1..Len(resp'.calls) :
                resp'.calls[i].kind = "store"
                => resp'.calls[i].op \notin {"storeChat", "storeMessage"}]_vars

\* send_message has sent a message to a chat of a Store that holds messages
C24_Witness ==
    /\ resp.tool = "send_message"
    /\ ~resp.isError
    /\ ~resp.threw
    /\ \E i \in 1..Len(resp.calls) : resp.calls[i].kind = "transport" /\ resp.calls[i].ok
    /\ messages # {}

\* The entries of the list that match the name and have phone digits
UsableEntries(list, query) ==
    {i \in 1..Len(list) :
        EntryNameMatches(list[i], query) /\ StripNonDigits(list[i].phone) # <<>>}

\* C25: a resolution that searches the contact fallback list gets from it the
\* address made of the phone digits of the first entry, in list order, that
\* matches the name and has phone digits, and gets none only when no entry
\* both matches the name and has phone digits.
C25_FirstEntryWithDigits ==
    (res.called /\ Consulted(res.out, "contacts.json"))
    => LET list == contactsJsonCache.list
           usable == UsableEntries(list, res.recipient)
       IN IF usable = {} THEN res.out.via # "contacts.json"
          ELSE /\ res.out.via = "contacts.json"
               /\ \E i \in usable :
                     /\ \A j \in usable : i <= j
                     /\ res.out.jid = StripNonDigits(list[i].phone) \o S_WHATSAPP_NET

-----------------------------------------------------------------------------
(* Inbound events (whatsapp.ts startWhatsAppConnection, sock.ev.process)   *)

\* messageTimestamp * 1000
MsPerSecond == 1000

\* Date.now() when the clock shows `now` seconds
DateNow(now) == now * MsPerSecond

\* The bracketed placeholder of a media type, "[Image]" for imageMessage
Placeholder(type) ==
    CASE type = "imageMessage" -> <<"[", "I", "m", "a", "g", "e", "]">>
      [] type = "videoMessage" -> <<"[", "V", "i", "d", "e", "o", "]">>
      [] type = "documentMessage" -> <<"[", "D", "o", "c", "u", "m", "e", "n", "t", "]">>
      [] type = "audioMessage" -> <<"[", "A", "u", "d", "i", "o", "]">>
      [] type = "stickerMessage" -> <<"[", "S", "t", "i", "c", "k", "e", "r", "]">>
      [] type = "locationMessage" -> <<"[", "L", "o", "c", "a", "t", "i", "o", "n", "]">>
      [] type = "contactMessage" -> <<"[", "C", "o", "n", "t", "a", "c", "t", "]">>
      [] type = "pollCreationMessage" -> <<"[", "P", "o", "l", "l", "]">>

\* `[Image] ${caption}`
Labelled(type, text) == Placeholder(type) \o <<" ">> \o text

\* The content parseMessageForDb gives for msg.message, <<>> for none;
\* message.text is the text, the caption, the address or the name the type
\* carries, <<>> when it carries none
MessageContent(message) ==
    CASE message.type \in {"conversation", "extendedTextMessage"} -> message.text
      [] message.type \in {"imageMessage", "videoMessage", "documentMessage"} ->
            IF message.text # <<>> THEN Labelled(message.type, message.text) ELSE <<>>
      [] message.type \in {"audioMessage", "stickerMessage"} -> Placeholder(message.type)
      [] message.type \in {"locationMessage", "contactMessage", "pollCreationMessage"} ->
            IF message.text # <<>> THEN Labelled(message.type, message.text) ELSE <<>>
      [] OTHER -> <<>>

\* parseMessageForDb taking the sender from key.participant alone
parseMessageForDb_ParticipantOnly(msg, now) ==
    IF ~msg.hasMessage \/ msg.key.remoteJid = <<>> THEN {}
    ELSE IF MessageContent(msg.message) = <<>> THEN {}
    ELSE {[id |-> msg.key.id,
           chat_jid |-> msg.key.remoteJid,
           sender |-> IF msg.key.participant # <<>>
                      THEN jidNormalizedUser(msg.key.participant) ELSE <<>>,
           content |-> MessageContent(msg.message),
           timestamp |-> IF msg.messageTimestamp.type = "number"
                         THEN msg.messageTimestamp.value * MsPerSecond
                         ELSE DateNow(now),
           is_from_me |-> msg.key.fromMe]}

\* parseMessageForDb without its return of null for a message without content
parseMessageForDb_KeepsNoContent(msg, now) ==
    IF ~msg.hasMessage \/ msg.key.remoteJid = <<>> THEN {}
    ELSE {[id |-> msg.key.id,
           chat_jid |-> msg.key.remoteJid,
           sender |-> IF msg.key.fromMe THEN <<>> ELSE jidNormalizedUser(msg.key.remoteJid),
           content |-> MessageContent(msg.message),
           timestamp |-> IF msg.messageTimestamp.type = "number"
                         THEN msg.messageTimestamp.value * MsPerSecond
                         ELSE DateNow(now),
           is_from_me |-> msg.key.fromMe]}

\* parseMessageForDb(msg): no row, or the row to store; msg.messageTimestamp
\* is a number of seconds, or of another type, and then Date.now() is taken
parseMessageForDb(msg, now) ==
    IF ~msg.hasMessage \/ msg.key.remoteJid = <<>> THEN {}
    ELSE IF MessageContent(msg.message) = <<>> THEN {}
    ELSE
    LET group == isJidGroup(msg.key.remoteJid)
        senderJid ==
            IF msg.key.fromMe /\ ~group THEN <<>>
            ELSE IF ~msg.key.fromMe /\ msg.key.participant = <<>> /\ ~group
            THEN msg.key.remoteJid
            ELSE msg.key.participant
    IN {[id |-> msg.key.id,
         chat_jid |-> msg.key.remoteJid,
         sender |-> IF senderJid # <<>> THEN jidNormalizedUser(senderJid) ELSE <<>>,
         content |-> MessageContent(msg.message),
         timestamp |-> IF msg.messageTimestamp.type = "number"
                       THEN msg.messageTimestamp.value * MsPerSecond
                       ELSE DateNow(now),
         is_from_me |-> msg.key.fromMe]}

\* The Store after storeMessage for the rows parsed from the first k messages
RECURSIVE StoreMessages(_, _, _, _)
StoreMessages(store, msgs, k, now) ==
    IF k = 0 THEN store
    ELSE LET before == StoreMessages(store, msgs, k - 1, now)
             parsed == parseMessageForDb(msgs[k], now)
         IN IF parsed = {} THEN before
            ELSE LET m == CHOOSE r \in parsed : TRUE IN
                 [chats |-> storeMessageChats(before.chats, m),
                  messages |-> storeMessageRows(before.messages, m)]

\* The rows parsed from a batch, in order
RECURSIVE ParsedRows(_, _)
ParsedRows(msgs, now) ==
    IF msgs = <<>> THEN <<>>
    ELSE LET parsed == parseMessageForDb(msgs[1], now) IN
         (IF parsed = {} THEN <<>> ELSE <<CHOOSE r \in parsed : TRUE>>)
         \o ParsedRows(Tail(msgs), now)

\* last_message_time of a chat of an event: conversationTimestamp
\* ? new Date(Number(conversationTimestamp) * 1000) : undefined
ConversationTime(chat) ==
    IF chat.conversationTimestamp # 0
    THEN chat.conversationTimestamp * MsPerSecond ELSE NoTimeGiven

\* chats.forEach / for (const chatUpdate of ...): storeChat for each chat
RECURSIVE StoreEventChats(_, _, _)
StoreEventChats(db, eventChats, k) ==
    IF k = 0 THEN db
    ELSE upsertChat(StoreEventChats(db, eventChats, k - 1), eventChats[k].id,
                    eventChats[k].name, ConversationTime(eventChats[k]))

\* contacts.forEach: storeChat for each contact with an id and a name
StoreEventContacts(db, contacts) ==
    StoreChats(db, SelectSeq(contacts, LAMBDA c : c.jid # <<>> /\ ContactName(c) # NoName),
               Len(SelectSeq(contacts, LAMBDA c : c.jid # <<>> /\ ContactName(c) # NoName)))

\* events["messaging-history.set"]: the chats, the contacts, then the messages
messagingHistorySet(store, eventChats, contacts, msgs, now) ==
    StoreMessages(
        [chats |-> StoreEventContacts(
                      StoreEventChats(store.chats, eventChats, Len(eventChats)), contacts),
         messages |-> store.messages],
        msgs, Len(msgs), now)

\* events["messages.upsert"]: the messages are stored when the type is
\* notify or append
messagesUpsert(store, type, msgs, now) ==
    IF type = "notify" \/ type = "append"
    THEN StoreMessages(store, msgs, Len(msgs), now)
    ELSE store

\* events["chats.update"]
chatsUpdate(store, updates) ==
    [chats |-> StoreEventChats(store.chats, updates, Len(updates)),
     messages |-> store.messages]


-----------------------------------------------------------------------------
(* Specification of the inbound events *)

\* The values msg.messageTimestamp may have at clock `now`: a number of
\* seconds not in the future, or a value of another type
WireTimes(now) ==
    {[type |-> "number", value |-> t] : t \in 1..now} \cup {[type |-> "other", value |-> 0]}

WireMessage(id, fromMe, message, ts) ==
    [key |-> [id |-> id, remoteJid |-> ChatAnn.jid, fromMe |-> fromMe, participant |-> <<>>],
     hasMessage |-> TRUE, message |-> message, messageTimestamp |-> ts]

\* A text from the contact, a voice note of mine, and a reaction, which
\* parseMessageForDb does not store
WireMessages(now) ==
    {WireMessage(Str_m1, FALSE, [type |-> "conversation", text |-> Str_hi], ts) :
        ts \in WireTimes(now)}
    \cup {WireMessage(Str_m2, TRUE, [type |-> "audioMessage", text |-> <<>>], ts) :
            ts \in WireTimes(now)}
    \cup {WireMessage(Str_m3, FALSE, [type |-> "reactionMessage", text |-> <<>>],
                      [type |-> "number", value |-> now])}

\* The message batches of an event: one message, the same message twice, or
\* two messages of the current second
MessageBatches(now) ==
    {<<m>> : m \in WireMessages(now)}
    \cup {<<m, m>> : m \in WireMessages(now)}
    \cup {<<a, b>> : a, b \in {m \in WireMessages(now) :
                                  m.messageTimestamp = [type |-> "number", value |-> now]}}

\* The chats of an event: the chat with the contact, with or without a name
\* and a conversationTimestamp (0 for none)
EventChats(now) ==
    {<<[id |-> ChatAnn.jid, name |-> name, conversationTimestamp |-> t]>> :
        name \in {NoName, ChatAnn.name}, t \in 0..now}

EventContacts == {<<ContactZoe>>, <<ContactNameless, ContactZoe>>}

\* An event handled: its name, the chat entries and contacts it carried and
\* the message rows parsed from it
ChatEvent(name, eventChats, contacts, rows) ==
    [called |-> TRUE,
     out |-> [event |-> name, chats |-> eventChats, contacts |-> contacts, rows |-> rows],
     recipient |-> <<>>]

Event(name, rows) == ChatEvent(name, <<>>, <<>>, rows)

TheStore == [chats |-> chats, messages |-> messages]

InitIngest ==
    /\ chats = {}
    /\ messages = {}
    /\ contactsFile = MissingFile
    /\ groupsFile = MissingFile
    /\ contactsJsonCache = NoCache
    /\ groupsJsonCache = NoCache
    /\ sock = [present |-> TRUE, user |-> TRUE]
    /\ input = [now |-> 1]
    /\ res = NoRes
    /\ resp = NoResp

\* Time passes
Tick ==
    /\ input.now < MaxClock
    /\ input' = [now |-> input.now + 1]
    /\ UNCHANGED <<chats, messages, contactsFile, groupsFile, contactsJsonCache,
                   groupsJsonCache, sock, res, resp>>

MessagingHistorySet ==
    /\ \E eventChats \in {<<>>} \cup EventChats(input.now),
          contacts \in {<<>>} \cup EventContacts,
          msgs \in {<<>>} \cup {<<m>> : m \in WireMessages(input.now)} :
          \E after \in {messagingHistorySet(TheStore, eventChats, contacts, msgs, input.now)} :
          /\ chats' = after.chats
          /\ messages' = after.messages
          /\ res' = ChatEvent("messaging-history.set", eventChats, contacts,
                              ParsedRows(msgs, input.now))
    /\ UNCHANGED <<contactsFile, groupsFile, contactsJsonCache, groupsJsonCache, sock,
                   input, resp>>

MessagesUpsert ==
    /\ \E type \in {"notify", "append", "prepend"}, msgs \in MessageBatches(input.now) :
          \E after \in {messagesUpsert(TheStore, type, msgs, input.now)} :
          /\ chats' = after.chats
          /\ messages' = after.messages
          /\ res' = Event("messages.upsert",
                          IF type = "prepend" THEN <<>> ELSE ParsedRows(msgs, input.now))
    /\ UNCHANGED <<contactsFile, groupsFile, contactsJsonCache, groupsJsonCache, sock,
                   input, resp>>

ChatsUpdate ==
    /\ \E updates \in EventChats(input.now) :
          /\ chats' = chatsUpdate(TheStore, updates).chats
          /\ res' = ChatEvent("chats.update", updates, <<>>, <<>>)
    /\ UNCHANGED <<messages, contactsFile, groupsFile, contactsJsonCache, groupsJsonCache,
                   sock, input, resp>>

ContactsUpsert ==
    /\ \E contacts \in EventContacts :
          /\ chats' = StoreEventContacts(chats, contacts)
          /\ res' = ChatEvent("contacts.upsert", <<>>, contacts, <<>>)
    /\ UNCHANGED <<messages, contactsFile, groupsFile, contactsJsonCache, groupsJsonCache,
                   sock, input, resp>>

ContactsUpdate ==
    /\ \E contacts \in EventContacts :
          /\ chats' = StoreEventContacts(chats, contacts)
          /\ res' = ChatEvent("contacts.update", <<>>, contacts, <<>>)
    /\ UNCHANGED <<messages, contactsFile, groupsFile, contactsJsonCache, groupsJsonCache,
                   sock, input, resp>>

NextIngest ==
    \/ Tick
    \/ MessagingHistorySet
    \/ MessagesUpsert
    \/ ChatsUpdate
    \/ ContactsUpsert
    \/ ContactsUpdate

SpecIngest == InitIngest /\ [][NextIngest]_vars


-----------------------------------------------------------------------------
(* Properties of the Store under inbound events *)

SameKey(a, b) == a.id = b.id /\ a.chat_jid = b.chat_jid

\* One row for each (id, chat_jid)
OneRowPerKey(msgs) == \A a, b \in msgs : SameKey(a, b) => a = b

\* The last-message fields of the chat are those of a message of the chat
\* with the greatest timestamp (when the chat has a message)
DescribesNewest(c, msgs) ==
    LET own == {m \in msgs : m.chat_jid = c.jid} IN
    own # {} =>
        \E m \in own :
            /\ \A n \in own : n.timestamp <= m.timestamp
            /\ c.last_message_time = m.timestamp
            /\ c.last_message = m.content
            /\ c.last_sender = m.sender
            /\ c.last_is_from_me = m.is_from_me

\* Every chat describes its newest message, and every message has its chat
Denormalized(db, msgs) ==
    /\ \A c \in db : DescribesNewest(c, msgs)
    /\ \A m \in msgs : \E c \in db : c.jid = m.chat_jid

\* The event stored a row whose (id, chat_jid) the Store held before it
StoredAgain(rows, msgs) ==
    \E i \in 1..Len(rows) : \E r \in msgs : SameKey(rows[i], r)

\* C17: message insert is idempotent: every event leaves one row for each
\* (id, chat_jid), and a messages.upsert event that stores a message whose
\* (id, chat_jid) the Store held before, in a Store whose chats described
\* their newest messages, leaves the chats describing their newest messages.
C17_InsertIdempotent ==
    [][/\ OneRowPerKey(messages')
       /\ (/\ res'.called
           /\ res'.out.event = "messages.upsert"
           /\ StoredAgain(res'.out.rows, messages)
           /\ Denormalized(chats, messages))
          => Denormalized(chats', messages')]_vars

\* C18: after any sequence of message inserts and chat upserts each chat's
\* last-message fields (time, preview, sender, from-me flag) are those of the
\* chat's message with the greatest timestamp.
C18_LastMessageIsNewest == Denormalized(chats, messages)


\* C21: in every state of the Store every stored message's chat_jid is the
\* jid of a chat of the Store: storing a message of a chat that does not
\* exist yet creates the chat.
C21_MessagesHaveChats == \A m \in messages : \E c \in chats : c.jid = m.chat_jid

\* A messages.upsert event stored a message, and the chat of the message has
\* never been named or given a time by a chat or contact event: the row of
\* the chat is the one the insert made
C21_Witness ==
    /\ res.called
    /\ res.out.event = "messages.upsert"
    /\ Len(res.out.rows) > 0
    /\ chats = {LastMessageOf(NewChat(res.out.rows[1].chat_jid, NoName, NoTimeGiven),
                              res.out.rows[1])}

\* The event carried a non-empty name for the chat
SuppliesName(out, jid) ==
    \/ \E i \in 1..Len(out.chats) : out.chats[i].id = jid /\ out.chats[i].name # NoName
    \/ \E i \in 1..Len(out.contacts) :
          out.contacts[i].jid = jid /\ ContactName(out.contacts[i]) # NoName

\* C22: a chat that has a name keeps it through every event that supplies no
\* non-empty name for its address, a chats.update or history-sync chat entry
\* without a name included.
C22_NameKeptWithoutName ==
    [][res'.called
       => \A c \in chats :
             (c.name # NoName /\ ~SuppliesName(res'.out, c.jid))
             => \E d \in chats' : d.jid = c.jid /\ d.name = c.name]_vars

\* A chats.update entry without a name was handled for a chat that has a name
C22_Witness ==
    /\ res.called
    /\ res.out.event = "chats.update"
    /\ \E i \in 1..Len(res.out.chats) :
          /\ res.out.chats[i].name = NoName
          /\ \E c \in chats : c.jid = res.out.chats[i].id /\ c.name # NoName

-----------------------------------------------------------------------------
(* Specification of the Store's message queries *)

IdDigits == <<"1", "2", "3", "4", "5", "6", "7", "8", "9">>

\* The i-th message of the chat with the contact, received at `time`
HistoryMessage(i, time) ==
    [id |-> <<"m", IdDigits[i]>>, chat_jid |-> ChatAnn.jid, sender |-> ChatAnn.jid,
     content |-> Str_hi, timestamp |-> time, is_from_me |-> FALSE]

\* A message of the group that has the id of the first message of the contact
GroupMessage(time) ==
    [id |-> <<"m", IdDigits[1]>>, chat_jid |-> ChatFam.jid, sender |-> ChatNoName.jid,
     content |-> Str_hi, timestamp |-> time, is_from_me |-> FALSE]

HistoryTimes == {1 * MsPerSecond, 2 * MsPerSecond}

\* The Store after storeMessage for each of the first k rows
RECURSIVE StoreRowsInOrder(_, _)
StoreRowsInOrder(rows, k) ==
    IF k = 0 THEN [chats |-> {}, messages |-> {}]
    ELSE LET before == StoreRowsInOrder(rows, k - 1) IN
         [chats |-> storeMessageChats(before.chats, rows[k]),
          messages |-> storeMessageRows(before.messages, rows[k])]

\* The histories: up to MaxMessages messages of the contact, some of them of
\* the same second, and at most one message of the group
Histories ==
    {[i \in 1..n |-> HistoryMessage(i, times[i])] \o other :
        n \in 0..MaxMessages,
        times \in [1..MaxMessages -> HistoryTimes],
        other \in {<<>>} \cup {<<GroupMessage(t)>> : t \in HistoryTimes}}

QueryChats == {ChatAnn.jid, ChatFam.jid}
Arounds == 0..MaxAround

NoQueryYet == [op |-> "none"]

Answer(rows) == [called |-> TRUE, out |-> rows, recipient |-> <<>>]

InitStore ==
    /\ \E rows \in Histories :
          /\ chats = StoreRowsInOrder(rows, Len(rows)).chats
          /\ messages = StoreRowsInOrder(rows, Len(rows)).messages
    /\ contactsFile = MissingFile
    /\ groupsFile = MissingFile
    /\ contactsJsonCache = NoCache
    /\ groupsJsonCache = NoCache
    /\ sock = NoSock
    /\ input = NoQueryYet
    /\ res = NoRes
    /\ resp = NoResp

\* getMessages(chat_jid, limit, page)
GetMessagesPage ==
    /\ \E chat_jid \in QueryChats, limit \in Limits, page \in Pages :
          /\ input' = [op |-> "getMessages", chat_jid |-> chat_jid, limit |-> limit,
                       page |-> page]
          /\ res' = Answer(getMessages(messages, chat_jid, limit, page))
    /\ UNCHANGED <<chats, messages, contactsFile, groupsFile, contactsJsonCache,
                   groupsJsonCache, sock, resp>>

\* getMessagesAround(messageId, before, after); the lookup by id gives any
\* of the rows with that id
GetMessagesAround ==
    /\ \E i \in 1..MaxMessages, before \in Arounds, after \in Arounds :
       \E target \in TargetsOf(messages, <<"m", IdDigits[i]>>) :
          /\ input' = [op |-> "getMessagesAround", message_id |-> target.id,
                       before |-> before, after |-> after]
          /\ res' = Answer(getMessagesAround(messages, target, before, after))
    /\ UNCHANGED <<chats, messages, contactsFile, groupsFile, contactsJsonCache,
                   groupsJsonCache, sock, resp>>

NextStore ==
    \/ GetMessagesPage
    \/ GetMessagesAround

SpecStore == InitStore /\ [][NextStore]_vars

-----------------------------------------------------------------------------
(* Properties of the Store's message queries *)

\* The messages of the chat
OfChat(chat_jid) == {m \in messages : m.chat_jid = chat_jid}

\* The rank of a message of its chat in the ordering by timestamp
\* descending, then id: one more than the number of messages before it
RankInChat(m) ==
    1 + Cardinality({n \in OfChat(m.chat_jid) :
                        \/ n.timestamp > m.timestamp
                        \/ n.timestamp = m.timestamp /\ LexLess(n.id, m.id)})

\* The rows are the messages of the chat ranked page * limit + 1 to
\* (page + 1) * limit, in that order
HoldsRanks(rows, chat_jid, limit, page) ==
    /\ \A i \in 1..Len(rows) :
          rows[i] \in OfChat(chat_jid) /\ RankInChat(rows[i]) = page * limit + i
    /\ \A m \in OfChat(chat_jid) :
          (page * limit + 1 <= RankInChat(m) /\ RankInChat(m) <= (page + 1) * limit)
          => \E i \in 1..Len(rows) : rows[i] = m

\* C19: getMessages(chat, L, P) returns the messages of the chat ranked
\* P*L+1 .. (P+1)*L by (timestamp descending, id), and when it is called for
\* page P and next for page P+1 of the same chat with the same limit the two
\* windows are disjoint and no message between them is skipped.
C19_ConsecutivePages ==
    [][(res'.called /\ input'.op = "getMessages")
       => /\ HoldsRanks(res'.out, input'.chat_jid, input'.limit, input'.page)
          /\ (/\ res.called
              /\ input.op = "getMessages"
              /\ input.chat_jid = input'.chat_jid
              /\ input.limit = input'.limit
              /\ input'.page = input.page + 1)
             => /\ \A i \in 1..Len(res.out), j \in 1..Len(res'.out) :
                      res.out[i] # res'.out[j]
                /\ res'.out # <<>> =>
                      /\ Len(res.out) = input.limit
                      /\ RankInChat(res'.out[1]) =
                            RankInChat(res.out[Len(res.out)]) + 1]_vars

\* Page 1 of a chat with two messages of the same second across the page
\* boundary was listed with limit 2
C19_Witness ==
    /\ res.called
    /\ input.op = "getMessages"
    /\ input.page = 1
    /\ input.limit = 2
    /\ Len(res.out) = 2
    /\ \E m \in OfChat(input.chat_jid) :
          RankInChat(m) = 2 /\ m.timestamp = res.out[1].timestamp

\* The run: the messages before the target, the target, the messages after
ContextRun(r) == r.before \o <<r.target>> \o r.after

-----------------------------------------------------------------------------
(* The transport connection (whatsapp.ts startWhatsAppConnection)          *)

\* (lastDisconnect?.error as any)?.output?.statusCode of a close:
\* DisconnectReason.loggedOut, another reason, or none
StatusCodes == {"loggedOut", "restartRequired", "undefined"}

\* The socket makeWASocket returns: its creator waits for it to open, and the
\* library has not closed it
NewSocket == [phase |-> "waiting", live |-> TRUE, opened |-> FALSE]

\* startWhatsAppConnection(logger): a new socket, its onUpdate listener set
startWhatsAppConnection(p) == [p EXCEPT !.socks = Append(@, NewSocket)]

\* process.exit(1)
ProcessExit(p) == [p EXCEPT !.running = FALSE]

\* process.exit(1) on any close
connectionUpdate_ExitOnAnyClose(p, i, connection, statusCode) ==
    IF connection = "close" THEN ProcessExit(p) ELSE p

\* reject(new Error("Logged out")) reaches the caller of
\* startWhatsAppConnection: the process ends
RejectedStart(p, i) == ProcessExit([p EXCEPT !.socks[i].phase = "rejected"])

\* onUpdate(update), the listener of the wait for the open: an open resolves
\* the wait and sock.ev.process is set, a logged-out close rejects it, any
\* other close is waited out
onUpdate(p, i, connection, statusCode) ==
    IF connection = "open" THEN [p EXCEPT !.socks[i].phase = "processing"]
    ELSE IF statusCode = "loggedOut" THEN RejectedStart(p, i)
    ELSE p

\* events["connection.update"] of sock.ev.process: a close that is not a
\* logout starts a connection, a logout ends the process
connectionUpdate(p, i, connection, statusCode) ==
    IF connection = "close"
    THEN IF statusCode # "loggedOut" THEN startWhatsAppConnection(p) ELSE ProcessExit(p)
    ELSE p

\* A connection.update of socket i reaches the listener the socket has
Listener(p, i, connection, statusCode) ==
    IF p.socks[i].phase = "waiting" THEN onUpdate(p, i, connection, statusCode)
    ELSE IF p.socks[i].phase = "processing"
    THEN connectionUpdate(p, i, connection, statusCode)
    ELSE p

\* Whether a connection.update that carries a qr has its link logged and
\* opened: onUpdate reads connection and lastDisconnect only; the handler of
\* sock.ev.process, set once the wait for the open is over, logs the qr and
\* opens the link
qrUpdate(p, i) ==
    IF p.socks[i].phase = "waiting" THEN FALSE
    ELSE p.socks[i].phase = "processing"

-----------------------------------------------------------------------------
(* Specification of the transport connection *)

ConnectionEvent(i, connection, statusCode) ==
    [called |-> TRUE,
     out |-> [event |-> "connection.update", sock |-> i, connection |-> connection,
              statusCode |-> statusCode],
     recipient |-> <<>>]

QrEvent(i, opened) ==
    [called |-> TRUE,
     out |-> [event |-> "connection.update", sock |-> i, connection |-> "undefined",
              statusCode |-> "undefined", qr |-> TRUE, opened |-> opened],
     recipient |-> <<>>]

\* The process has called startWhatsAppConnection once
InitConnect ==
    /\ chats = {ChatAnn, ChatFam}
    /\ messages = {}
    /\ contactsFile = MissingFile
    /\ groupsFile = MissingFile
    /\ contactsJsonCache = NoCache
    /\ groupsJsonCache = NoCache
    /\ sock = NoSock
    /\ input = startWhatsAppConnection([running |-> TRUE, socks |-> <<>>])
    /\ res = NoRes
    /\ resp = NoResp

\* The library opens socket i; the first socket is the one startMcpServer is
\* given once it is open, and the tools keep that handle
ConnectionOpen ==
    /\ input.running
    /\ \E i \in 1..Len(input.socks) :
          /\ input.socks[i].live
          /\ ~input.socks[i].opened
          /\ input' = Listener([input EXCEPT !.socks[i].opened = TRUE], i, "open",
                               "undefined")
          /\ sock' = IF i = 1 THEN [present |-> TRUE, user |-> TRUE, handle |-> i]
                      ELSE sock
          /\ res' = ConnectionEvent(i, "open", "undefined")
    /\ UNCHANGED <<chats, messages, contactsFile, groupsFile, contactsJsonCache,
                   groupsJsonCache, resp>>

\* The library closes socket i; closes that are followed by another
\* connection stop once MaxSockets sockets have been made
ConnectionClose ==
    /\ input.running
    /\ \E i \in 1..Len(input.socks), statusCode \in StatusCodes :
          /\ input.socks[i].live
          /\ \/ Len(input.socks) < MaxSockets
             \/ statusCode = "loggedOut"
             \/ input.socks[i].phase = "waiting"
          /\ input' = Listener([input EXCEPT !.socks[i].live = FALSE], i, "close",
                               statusCode)
          /\ res' = ConnectionEvent(i, "close", statusCode)
    /\ UNCHANGED <<chats, messages, contactsFile, groupsFile, contactsJsonCache,
                   groupsJsonCache, sock, resp>>

\* The library emits a connection.update with a qr on socket i; no listener
\* changes a socket on it
ConnectionQr ==
    /\ input.running
    /\ \E i \in 1..Len(input.socks) :
          /\ input.socks[i].live
          /\ res' = QrEvent(i, qrUpdate(input, i))
    /\ UNCHANGED <<chats, messages, contactsFile, groupsFile, contactsJsonCache,
                   groupsJsonCache, sock, input, resp>>

\* A tool is invoked while the process runs; the transport may throw
ToolInvocation ==
    /\ input.running
    /\ Idle
    /\ \E recipient \in {ChatAnn.jid, ChatFam.jid}, o \in Outcomes \X Outcomes :
          resp' = send_message(recipient, Str_hi, FALSE, o)
    /\ UNCHANGED <<chats, messages, contactsFile, groupsFile, contactsJsonCache,
                   groupsJsonCache, sock, input, res>>

ToolAnswered ==
    /\ input.running
    /\ Deliver

NextConnect ==
    \/ ConnectionOpen
    \/ ConnectionClose
    \/ ConnectionQr
    \/ ToolInvocation
    \/ ToolAnswered

SpecConnect == InitConnect /\ [][NextConnect]_vars

\* Every step that can be taken is taken in the end
SpecConnectFair == SpecConnect /\ WF_vars(NextConnect)

-----------------------------------------------------------------------------
(* Properties of the transport connection *)

\* C23: the process ends only in the step that handles a close of the
\* connection whose reason is logged-out: no other close ends it, and no tool
\* invocation does, whatever the transport throws.
C23_ExitOnlyOnLoggedOut ==
    [][(input.running /\ ~input'.running)
       => /\ res'.out.event = "connection.update"
          /\ res'.out.connection = "close"
          /\ res'.out.statusCode = "loggedOut"
          /\ resp' = resp]_vars

\* The process runs after a close of another reason has been handled and
\* after a tool invocation in which the transport threw
C23_Witness ==
    /\ input.running
    /\ res.called
    /\ res.out.connection = "close"
    /\ res.out.statusCode = "restartRequired"
    /\ resp.tool = "send_message"
    /\ resp.isError
    /\ \E i \in 1..Len(resp.calls) : resp.calls[i].kind = "transport" /\ ~resp.calls[i].ok

\* C29: no step that handles a close of the connection starts a connection.
C29_NoReconnectByCore ==
    [][(res'.called /\ res'.out.event = "connection.update" /\ res'.out.connection = "close")
       => Len(input'.socks) = Len(input.socks)]_vars

\* The process runs and every socket it made is closed
ClosedWithNoAttempt ==
    /\ input.running
    /\ \A i \in 1..Len(input.socks) : ~input.socks[i].live

\* C30: whenever the process runs with every connection closed, a connection
\* attempt is pending again in the end.
C30_ReconnectEventually == ClosedWithNoAttempt ~> ~ClosedWithNoAttempt


\* The socket the tools hold has been closed and a later socket has been made
ClosedAndReplaced ==
    /\ sock.present
    /\ ~input.socks[sock.handle].live
    /\ Len(input.socks) > sock.handle

\* C31: no invocation of a write tool hands its request to the transport
\* through a socket that has been closed and replaced by a later one.
C31_DispatchOnCurrentConnection ==
    [][(resp = NoResp /\ resp' # NoResp
        /\ \E k \in 1..Len(resp'.calls) : resp'.calls[k].kind = "transport")
       => ~ClosedAndReplaced]_vars

\* C32: in every step in which the transport emits a qr, the qr link is logged
\* and opened, also when the socket has never been open.
C32_EveryQrHandled ==
    [][(res'.called /\ "qr" \in DOMAIN res'.out /\ res' # res) => res'.out.opened]_vars

-----------------------------------------------------------------------------
(* Specification of the fallback lists' loaders *)

\* A file whose content is the JSON text null
NullFile == [ok |-> TRUE, list |-> <<>>, falsy |-> TRUE]

\* contacts.json and groups.json on disk: missing or unparsable, an empty
\* list, a list, or null
ContactsOnDisk == {MissingFile, [ok |-> TRUE, list |-> <<>>], [ok |-> TRUE, list |-> <<EZed>>],
                   NullFile}
GroupsOnDisk == {MissingFile, [ok |-> TRUE, list |-> <<>>], [ok |-> TRUE, list |-> <<GFamily>>],
                 NullFile}

\* readFileSync is called by the loader when the cache is not set
Reads(cache) == IF cache.loaded THEN 0 ELSE 1

\* The outcome of a lookup: the loader's value is used as a list, which
\* throws a TypeError when it is null
Lookup(fn, query, cache, file, found) ==
    [called |-> TRUE,
     out |-> [fn |-> fn, read |-> Reads(cache) = 1,
              threw |-> ~cache.loaded /\ file.ok /\ Falsy(file),
              found |-> IF ~cache.loaded /\ file.ok /\ Falsy(file) THEN <<>> ELSE found],
     recipient |-> query]

InitCache ==
    /\ chats = {}
    /\ messages = {}
    /\ contactsFile \in ContactsOnDisk
    /\ groupsFile \in GroupsOnDisk
    /\ contactsJsonCache = NoCache
    /\ groupsJsonCache = NoCache
    /\ sock = NoSock
    /\ input = [contactsReads |-> 0, groupsReads |-> 0]
    /\ res = NoRes
    /\ resp = NoResp

\* searchContactsJson(query)
SearchContactsJson ==
    /\ input.contactsReads < MaxReads
    /\ \E query \in {Str_zed, Str_bob} :
          /\ res' = Lookup("searchContactsJson", query, contactsJsonCache, contactsFile,
                           searchContactsJson(query,
                              getContactsJson(contactsJsonCache, contactsFile)))
          /\ contactsJsonCache' = CacheAfterCall(contactsJsonCache, contactsFile)
          /\ input' = [input EXCEPT !.contactsReads = @ + Reads(contactsJsonCache)]
    /\ UNCHANGED <<chats, messages, contactsFile, groupsFile, groupsJsonCache, sock, resp>>

\* searchGroupsJson(query)
SearchGroupsJson ==
    /\ input.groupsReads < MaxReads
    /\ \E query \in {Str_family, Str_bob} :
          /\ res' = Lookup("searchGroupsJson", query, groupsJsonCache, groupsFile,
                           searchGroupsJson(query, getGroupsJson(groupsJsonCache, groupsFile)))
          /\ groupsJsonCache' = CacheAfterCall(groupsJsonCache, groupsFile)
          /\ input' = [input EXCEPT !.groupsReads = @ + Reads(groupsJsonCache)]
    /\ UNCHANGED <<chats, messages, contactsFile, groupsFile, contactsJsonCache, sock, resp>>

\* contacts.json is written, replaced or removed on disk
ContactsFileChanges ==
    /\ \E file \in ContactsOnDisk \ {contactsFile} : contactsFile' = file
    /\ UNCHANGED <<chats, messages, groupsFile, contactsJsonCache, groupsJsonCache, sock,
                   input, res, resp>>

\* groups.json is written, replaced or removed on disk
GroupsFileChanges ==
    /\ \E file \in GroupsOnDisk \ {groupsFile} : groupsFile' = file
    /\ UNCHANGED <<chats, messages, contactsFile, contactsJsonCache, groupsJsonCache, sock,
                   input, res, resp>>

NextCache ==
    \/ SearchContactsJson
    \/ SearchGroupsJson
    \/ ContactsFileChanges
    \/ GroupsFileChanges

SpecCache == InitCache /\ [][NextCache]_vars

\* C26: across any sequence of lookups each fallback list is read from its
\* file at most once.
C26_ReadAtMostOnce == input.contactsReads <= 1 /\ input.groupsReads <= 1


-----------------------------------------------------------------------------
(* Specification of the parsing of inbound messages *)

MessageTypes ==
    {"conversation", "extendedTextMessage", "imageMessage", "videoMessage",
     "documentMessage", "audioMessage", "stickerMessage", "locationMessage",
     "contactMessage", "pollCreationMessage", "reactionMessage"}

MediaTypes ==
    {"imageMessage", "videoMessage", "documentMessage", "audioMessage", "stickerMessage"}

\* The chats a message arrives in: the contact's, the contact's from a
\* device of theirs, and the group
RemoteJids == {ChatAnn.jid, <<"1", "2", ":", "3">> \o S_WHATSAPP_NET, ChatFam.jid}

\* key.participant: none, or a member
Participants == {<<>>, ChatNoName.jid}

\* The messages of the wire: msg.message is missing, or has one type with or
\* without the text the type carries
ParsedMessages ==
    {[key |-> [id |-> Str_m1, remoteJid |-> remoteJid, fromMe |-> fromMe,
               participant |-> participant],
      hasMessage |-> hasMessage,
      message |-> [type |-> type, text |-> text],
      messageTimestamp |-> [type |-> "number", value |-> 1]] :
        remoteJid \in RemoteJids, fromMe \in BOOLEAN, participant \in Participants,
        hasMessage \in BOOLEAN, type \in MessageTypes, text \in {<<>>, Str_hi}}

InitParse ==
    /\ chats = {}
    /\ messages = {}
    /\ contactsFile = MissingFile
    /\ groupsFile = MissingFile
    /\ contactsJsonCache = NoCache
    /\ groupsJsonCache = NoCache
    /\ sock = [present |-> TRUE, user |-> TRUE]
    /\ input \in ParsedMessages
    /\ res = NoRes
    /\ resp = NoResp

\* events["messages.upsert"] with the message, of type notify
UpsertParsed ==
    /\ ~res.called
    /\ \E after \in {messagesUpsert(TheStore, "notify", <<input>>, 1)} :
          /\ chats' = after.chats
          /\ messages' = after.messages
    /\ res' = Event("messages.upsert", ParsedRows(<<input>>, 1))
    /\ UNCHANGED <<contactsFile, groupsFile, contactsJsonCache, groupsJsonCache, sock,
                   input, resp>>

NextParse == UpsertParsed

SpecParse == InitParse /\ [][NextParse]_vars

\* C27: every inbound message of a media type (image, video, document,
\* audio, sticker) is stored, its content the bracketed placeholder of the
\* type, followed by the caption when it has one.
C27_MediaStoredWithPlaceholder ==
    (res.called /\ input.hasMessage /\ input.message.type \in MediaTypes)
    => \E m \in messages :
          /\ m.id = input.key.id
          /\ m.chat_jid = input.key.remoteJid
          /\ m.content =
                IF input.message.text # <<>>
                   /\ input.message.type \in {"imageMessage", "videoMessage", "documentMessage"}
                THEN Labelled(input.message.type, input.message.text)
                ELSE Placeholder(input.message.type)

\* C28: a message stored from an inbound event in a chat that is not a group
\* has no sender exactly when it is from me; one that is not from me has the
\* participant as its sender, or the chat's address when no participant is
\* given.
C28_SenderNullIffFromMe ==
    \A m \in messages :
        ~isJidGroup(m.chat_jid)
        => /\ (m.sender = <<>>) <=> m.is_from_me
           /\ ~m.is_from_me
              => m.sender = jidNormalizedUser(IF input.key.participant # <<>>
                                              THEN input.key.participant
                                              ELSE m.chat_jid)

\* A message of the contact without a participant is stored with the chat's
\* address as its sender
C28_Witness ==
    /\ res.called
    /\ input.key.participant = <<>>
    /\ \E m \in messages :
          ~isJidGroup(m.chat_jid) /\ ~m.is_from_me /\ m.sender = m.chat_jid

\* The message of the event gives no content: it has no msg.message, its
\* type is not one parseMessageForDb knows, or its type carries a text and the
\* text is missing
WithoutContent ==
    \/ ~input.hasMessage
    \/ input.message.type = "reactionMessage"
    \/ /\ input.message.text = <<>>
       /\ input.message.type \notin {"audioMessage", "stickerMessage"}

\* C34: no stored message has an empty content, and an inbound message that
\* gives no content leaves the Store as it was: no message and no chat is
\* written for it.
C34_NoEmptyContentStored ==
    /\ \A m \in messages : m.content # <<>>
    /\ (res.called /\ WithoutContent) => (messages = {} /\ chats = {})

\* A reaction and a text without characters have been handled and the Store
\* holds nothing, while a message with content is stored when handled
C34_Witness ==
    /\ res.called
    /\ input.hasMessage
    /\ input.message.type \in {"reactionMessage", "conversation"}
    /\ input.message.text = <<>>
    /\ messages = {}

-----------------------------------------------------------------------------
(* Specification of the chats written by inbound events and contact sync *)

\* The chats of an event: chat.id may be missing (<<>>), as the handlers'
\* `chat.id ?? ''` and `chatUpdate.id!` allow for
AddressedChats ==
    {[id |-> id, name |-> name, conversationTimestamp |-> t] :
        id \in {<<>>, ChatAnn.jid, ChatFam.jid}, name \in {NoName, ChatAnn.name},
        t \in 0..1}

\* The contacts of an event, or the entries of sock.contacts: the id may be
\* missing and so may every name
AddressedContacts ==
    {[jid |-> jid, name |-> name, notify |-> notify, verifiedName |-> <<>>] :
        jid \in {<<>>, ChatNoName.jid}, name \in {<<>>, ContactNan.name},
        notify \in {<<>>, ContactZoe.notify}}

\* The storeChat calls of chats.forEach / for (const chatUpdate of ...)
StoreChatCalls(eventChats) ==
    [k \in 1..Len(eventChats) |-> Call("store", "storeChat", eventChats[k].id, TRUE)]

\* The storeChat calls made for contacts: one for each with an id and a name
StoreContactCalls(contacts) ==
    [k \in 1..Len(Syncable(contacts)) |->
        Call("store", "storeChat", Syncable(contacts)[k].jid, TRUE)]

StoreChatEvent(name, calls) ==
    [called |-> TRUE, out |-> [event |-> name, calls |-> calls], recipient |-> <<>>]

\* One event is handled: its chats and contacts are the input
InitChats ==
    /\ chats \in {{}, {ChatAnn}}
    /\ messages = {}
    /\ contactsFile = MissingFile
    /\ groupsFile = MissingFile
    /\ contactsJsonCache = NoCache
    /\ groupsJsonCache = NoCache
    /\ sock = [present |-> TRUE, user |-> TRUE]
    /\ input \in [chats : {<<c>> : c \in AddressedChats},
                  contacts : {<<c>> : c \in AddressedContacts}]
    /\ res = NoRes
    /\ resp = NoResp

\* events["messaging-history.set"] with the chats and the contacts
HistoryChats ==
    /\ ~res.called
    /\ chats' = messagingHistorySet(TheStore, input.chats, input.contacts, <<>>, 1).chats
    /\ res' = StoreChatEvent("messaging-history.set",
                             StoreChatCalls(input.chats) \o StoreContactCalls(input.contacts))
    /\ UNCHANGED <<messages, contactsFile, groupsFile, contactsJsonCache, groupsJsonCache,
                   sock, input, resp>>

\* events["chats.update"] with the chats
UpdatedChats ==
    /\ ~res.called
    /\ chats' = chatsUpdate(TheStore, input.chats).chats
    /\ res' = StoreChatEvent("chats.update", StoreChatCalls(input.chats))
    /\ UNCHANGED <<messages, contactsFile, groupsFile, contactsJsonCache, groupsJsonCache,
                   sock, input, resp>>

\* events["contacts.upsert"] and events["contacts.update"] with the contacts
NamedContacts ==
    /\ ~res.called
    /\ \E name \in {"contacts.upsert", "contacts.update"} :
          res' = StoreChatEvent(name, StoreContactCalls(input.contacts))
    /\ chats' = StoreEventContacts(chats, input.contacts)
    /\ UNCHANGED <<messages, contactsFile, groupsFile, contactsJsonCache, groupsJsonCache,
                   sock, input, resp>>

\* syncContactsFromSock with the contacts as sock.contacts
SyncedContacts ==
    /\ ~res.called
    /\ \E synced \in {syncContactsFromSock(sock, chats,
                           [available |-> TRUE, map |-> input.contacts], 0)} :
          /\ chats' = synced.db
          /\ res' = StoreChatEvent("syncContactsFromSock", synced.calls)
    /\ UNCHANGED <<messages, contactsFile, groupsFile, contactsJsonCache, groupsJsonCache,
                   sock, input, resp>>

NextChats ==
    \/ HistoryChats
    \/ UpdatedChats
    \/ NamedContacts
    \/ SyncedContacts

SpecChats == InitChats /\ [][NextChats]_vars

\* C36: no chat of the Store has an empty address, and every storeChat call
\* made for an inbound event or by contact sync is given a non-empty address.
C36_NoEmptyAddressStored ==
    /\ \A c \in chats : c.jid # <<>>
    /\ res.called => \A k \in 1..Len(res.out.calls) : res.out.calls[k].arg # <<>>

====
